---- MODULE Spec2Model ----
(***************************************************************************)
(* Model of the computer-use agent loop of Extab                           *)
(* (src/src/components/settings/ComputerUseSettings.tsx):                  *)
(* computerUseAgentLoop, an async generator that replays a transcript to   *)
(* the model endpoint, dispatches the tool invocations of each reply       *)
(* through executeComputerAction and yields progress events.               *)
(*                                                                         *)
(* A state is a suspension point of the generator: a yield (the consumer   *)
(* holds control and either resumes the generator with next() or ends it   *)
(* with return()) or an await (an endpoint call or a dispatch is pending). *)
(* Each action runs the code from one suspension point to the next.        *)
(*                                                                         *)
(* JSON values whose shape varies at run time are tagged records:          *)
(* JStr(s), JArr(q), JNull.  An optional field of a JS object is a field   *)
(* that is absent from the record's domain.                                *)
(***************************************************************************)
EXTENDS Integers, Sequences, FiniteSets, TLC

\* ---------------------------------------------------------------- bounds
\* Largest config.maxIterations a session is started with.
MaxBudget == 2
\* Content blocks the endpoint returns over one session, all replies together.
MaxBlocks == 3
\* The same total for the sessions of LiveSpec.
LiveBlocks == 2
\* How far below zero the config.maxIterations of a session of SpecAnyBudget goes.
MaxDeficit == 1
\* Content blocks the endpoint returns to each of two concurrent sessions.
TwoBlocks == 1

\* ------------------------------------------------------- JSON encodings
JStr(s) == [json |-> "string", value |-> s]
JArr(q) == [json |-> "array", items |-> q]
JNull == [json |-> "null"]

Has(rec, field) == field \in DOMAIN rec

RECURSIVE SeqsOfLen(_, _)
SeqsOfLen(S, n) ==
    IF n = 0 THEN {<<>>}
    ELSE {Append(q, e) : q \in SeqsOfLen(S, n - 1), e \in S}

SeqsUpTo(S, n) == UNION {SeqsOfLen(S, k) : k \in 0..n}

\* ------------------------------------------------------------ the inputs
\* userMessage, the seed of the transcript.
UserMessage == "open the calculator"

\* The content blocks a reply is made of: narration, reasoning, a click the
\* Action Executor may refuse, an unsupported action, and a tool_use block
\* that lacks its input.  The endpoint is free to repeat a block, and so an id.
ReplyBlocks ==
    { [type |-> "text", text |-> "hello"],
      [type |-> "thinking", thinking |-> "hmm"],
      [type |-> "tool_use", id |-> "toolu_1",
       input |-> [action |-> "left_click", coordinate |-> <<10, 20>>]],
      [type |-> "tool_use", id |-> "toolu_2", input |-> [action |-> "fly"]],
      [type |-> "tool_use", id |-> "toolu_3"] }


\* The input records of tool_use blocks that reach executeComputerAction:
\* every action of the switch with its parameters, the pointer actions also
\* without their coordinate, a drag without its end, a scroll in either
\* direction and without coordinate, an unknown action and no action at all.
DispatchInputs ==
    { [action |-> "screenshot"],
      [action |-> "left_click_drag", start_coordinate |-> <<10, 20>>,
       end_coordinate |-> <<30, 40>>],
      [action |-> "left_click_drag", start_coordinate |-> <<10, 20>>],
      [action |-> "scroll", scroll_direction |-> "down", scroll_amount |-> 3],
      [action |-> "type", text |-> "hi"],
      [action |-> "key", text |-> "Return"],
      [action |-> "fly"],
      [text |-> "hi"] }
    \cup { [action |-> a, coordinate |-> <<10, 20>>] :
              a \in {"mouse_move", "left_click", "right_click", "middle_click",
                     "double_click"} }
    \cup { [action |-> a] :
              a \in {"mouse_move", "left_click", "right_click", "middle_click",
                     "double_click"} }
    \cup { [action |-> "scroll", coordinate |-> c, scroll_direction |-> d,
            scroll_amount |-> n] :
              c \in {<<10, 20>>, <<0, 20>>}, d \in {"down", "up", "left"}, n \in {3, 5} }
    \cup { [action |-> "scroll", scroll_direction |-> "left", scroll_amount |-> 5] }

StopReasons == {"end_turn", "tool_use", "max_tokens"}

\* What the observer passed as onActionExecuted does: absent, returns, raises.
ObserverModes == {"none", "returns", "throws"}

\* What one call of the endpoint can come back with, the endpoint having n
\* blocks left to send: the fetch rejects, the status is not ok, the body
\* does not parse, or the body parses to {content, stop_reason}.
Responses(n) ==
    { [kind |-> "reject", message |-> "network error"],
      [kind |-> "http", ok |-> FALSE, status |-> 529, text |-> "overloaded"],
      [kind |-> "http", ok |-> TRUE, status |-> 200, parses |-> FALSE,
       message |-> "Unexpected token < in JSON"] }
    \cup { [kind |-> "http", ok |-> TRUE, status |-> 200, parses |-> TRUE,
            data |-> [content |-> c, stop_reason |-> s]] :
              c \in {JNull} \cup {JArr(q) : q \in SeqsUpTo(ReplyBlocks, n)},
              s \in StopReasons }


\* The replies of an endpoint that asks for one action at a time while it has
\* blocks left (n > 0), and then stops without a tool use.
DispatchResponses(n) ==
    IF n = 0
    THEN { [kind |-> "http", ok |-> TRUE, status |-> 200, parses |-> TRUE,
            data |-> [content |-> JArr(<<>>), stop_reason |-> "end_turn"]] }
    ELSE { [kind |-> "http", ok |-> TRUE, status |-> 200, parses |-> TRUE,
            data |-> [content |-> JArr(<<[type |-> "tool_use", id |-> "toolu_1",
                                          input |-> input]>>),
                      stop_reason |-> s]] :
              input \in DispatchInputs, s \in StopReasons }

\* What one call of the Action Executor (invoke) can come back with.
InvokeOutcomes(cmd) ==
    { [ok |-> TRUE, value |-> IF cmd = "capture_to_base64" THEN "base64jpeg" ELSE "ok"],
      [ok |-> FALSE, error |-> "permission denied"] }

\* ---------------------------------------------------------------- state
VARIABLES
    config,           \* ComputerUseConfig: maxIterations, displayWidth, displayHeight, model
    onActionExecuted, \* the observer argument, by what it does
    messages,         \* the transcript
    iterations,       \* the iteration counter
    pc,               \* the suspension point of the generator
    data,             \* the parsed reply of the current iteration
    blockIdx,         \* position of the for-of loop over data.content
    tuIdx,            \* position of the for-of loop over toolUses
    toolResults,      \* the tool results of the current round
    pending,          \* the call of executeComputerAction being awaited
    trace,            \* what the session did: yields, endpoint calls, executor calls
    returnRequested,  \* the consumer called return() while the generator was running
    blocksLeft,       \* blocks the endpoint may still send
    localStorage,     \* the items of safeLocalStorage, by key
    quickActions,     \* useSystemAudio: the quick-action list
    helper            \* the last call made outside the loop: a helper's, a quick-action handler's

\* What lives outside a session of computerUseAgentLoop.
appVars == <<localStorage, quickActions, helper>>

\* The state of a session of computerUseAgentLoop, its config apart.
loopVars == <<onActionExecuted, messages, iterations, pc, data, blockIdx,
              tuIdx, toolResults, pending, trace, returnRequested, blocksLeft>>

vars == <<config, loopVars, appVars>>

\* The keys of safeLocalStorage read and written here, by their names in
\* STORAGE_KEYS.
StorageKeys == {"EXTAB_API_ENABLED", "SYSTEM_AUDIO_QUICK_ACTIONS"}

\* Nothing stored (getItem gives null), no quick action, no helper call in
\* progress.
NoCall == [fn |-> "none", pc |-> "idle"]
AppIdle ==
    /\ localStorage = [k \in StorageKeys |-> JNull]
    /\ quickActions = <<>>
    /\ helper = NoCall

\* The locals the loop body changes, as one record.
st ==
    [messages |-> messages, iterations |-> iterations, pc |-> pc,
     blockIdx |-> blockIdx, tuIdx |-> tuIdx, toolResults |-> toolResults,
     trace |-> trace]

NoData == [content |-> JNull, stop_reason |-> "none"]
NoPending == [observed |-> FALSE, call |-> <<>>, settled |-> <<>>]

\* --------------------------------------------------- executeComputerAction
SupportedActions ==
    {"screenshot", "mouse_move", "left_click", "right_click", "middle_click",
     "double_click", "left_click_drag", "scroll", "type", "key"}

CoordinateActions ==
    {"mouse_move", "left_click", "right_click", "middle_click", "double_click"}

\* toolUse.input.action; a missing field reads as undefined.
ActionOf(input) == IF Has(input, "action") THEN input.action ELSE "undefined"

\* { ...toolUse.input, tool_use_id: toolUse.id }
ParamsOf(toolUse) == ("tool_use_id" :> toolUse.id) @@ toolUse.input

\* The catch clause of executeComputerAction.
ErrorResult(params, message) ==
    [type |-> "tool_result", tool_use_id |-> params.tool_use_id,
     content |-> JStr("Error: " \o message), is_error |-> TRUE]


\* UnsupportedResult without the error flag.
UnsupportedResultUnflagged(action, params) ==
    [type |-> "tool_result", tool_use_id |-> params.tool_use_id,
     content |-> JStr("Unsupported action: " \o action)]

\* The default branch of the switch.
UnsupportedResult(action, params) ==
    [type |-> "tool_result", tool_use_id |-> params.tool_use_id,
     content |-> JStr("Unsupported action: " \o action), is_error |-> TRUE]

\* The result a branch of the switch returns when its invoke resolved.
SuccessResult(action, params, value) ==
    [type |-> "tool_result", tool_use_id |-> params.tool_use_id,
     content |-> IF action = "screenshot"
                 THEN JArr(<<[type |-> "image",
                              source |-> [type |-> "base64", media_type |-> "image/jpeg",
                                          data |-> value]]>>)
                 ELSE JStr(value)]

\* Evaluating the arguments of the invoke reads an index of an absent array.
ArgsThrow(action, params) ==
    \/ action \in CoordinateActions /\ ~Has(params, "coordinate")
    \/ action = "left_click_drag"
       /\ (~Has(params, "start_coordinate") \/ ~Has(params, "end_coordinate"))


\* ScrollY without the sign: the amount whatever the direction is.
ScrollYUnsigned(params) == params.scroll_amount

\* The vertical delta of a scroll: the amount for "down", its negation otherwise.
ScrollY(params) ==
    IF Has(params, "scroll_direction") /\ params.scroll_direction = "down"
    THEN params.scroll_amount
    ELSE 0 - params.scroll_amount

\* ScrollAt scrolling at the origin whatever the coordinate is.
ScrollAtOrigin(params, k) == 0

\* The k-th component of the position of a scroll: params.coordinate?.[k] || 0,
\* so 0 when the coordinate is absent and when the component is 0.
ScrollAt(params, k) ==
    IF Has(params, "coordinate") /\ params.coordinate[k] # 0
    THEN params.coordinate[k]
    ELSE 0

ClickCall(params, button) ==
    [cmd |-> "computer_mouse_click",
     args |-> [x |-> params.coordinate[1], y |-> params.coordinate[2], button |-> button]]

\* The invoke each branch of the switch issues.
InvokeOf(action, params) ==
    CASE action = "screenshot" -> [cmd |-> "capture_to_base64"]
      [] action = "mouse_move" ->
            [cmd |-> "computer_mouse_move",
             args |-> [x |-> params.coordinate[1], y |-> params.coordinate[2]]]
      [] action = "left_click" -> ClickCall(params, "left")
      [] action = "right_click" -> ClickCall(params, "right")
      [] action = "middle_click" -> ClickCall(params, "middle")
      [] action = "double_click" ->
            [cmd |-> "computer_mouse_double_click",
             args |-> [x |-> params.coordinate[1], y |-> params.coordinate[2]]]
      [] action = "left_click_drag" ->
            [cmd |-> "computer_mouse_drag",
             args |-> [fromX |-> params.start_coordinate[1],
                       fromY |-> params.start_coordinate[2],
                       toX |-> params.end_coordinate[1],
                       toY |-> params.end_coordinate[2]]]
      [] action = "scroll" ->
            [cmd |-> "computer_mouse_scroll",
             args |-> [x |-> ScrollAt(params, 1),
                       y |-> ScrollAt(params, 2),
                       scrollX |-> 0, scrollY |-> ScrollY(params)]]
      [] action = "type" ->
            [cmd |-> "computer_keyboard_type",
             args |-> [text |-> params.text]]
      [] action = "key" ->
            [cmd |-> "computer_keyboard_key",
             args |-> [key |-> params.text]]


\* ExecStart notifying the observer in the supported branches only.
ExecStartSkipsUnsupported(action, params, observer) ==
    IF action \notin SupportedActions
    THEN [observed |-> FALSE, call |-> <<>>,
          settled |-> <<UnsupportedResult(action, params)>>]
    ELSE IF observer = "throws"
    THEN [observed |-> TRUE, call |-> <<>>,
          settled |-> <<ErrorResult(params, "observer failed")>>]
    ELSE IF ArgsThrow(action, params)
    THEN [observed |-> observer # "none", call |-> <<>>,
          settled |-> <<ErrorResult(params, "Cannot read properties of undefined (reading '0')")>>]
    ELSE [observed |-> observer # "none", call |-> <<InvokeOf(action, params)>>,
          settled |-> <<>>]

\* executeComputerAction up to its first await: the observer is notified,
\* then the switch either issues an invoke (call) or the promise is already
\* settled with a result (settled).
ExecStart(action, params, observer) ==
    IF observer = "throws"
    THEN [observed |-> TRUE, call |-> <<>>,
          settled |-> <<ErrorResult(params, "observer failed")>>]
    ELSE IF action \notin SupportedActions
    THEN [observed |-> observer # "none", call |-> <<>>,
          settled |-> <<UnsupportedResult(action, params)>>]
    ELSE IF ArgsThrow(action, params)
    THEN [observed |-> observer # "none", call |-> <<>>,
          settled |-> <<ErrorResult(params, "Cannot read properties of undefined (reading '0')")>>]
    ELSE [observed |-> observer # "none", call |-> <<InvokeOf(action, params)>>,
          settled |-> <<>>]


\* ExecFinish returning the failure of the executor without the error flag.
ExecFinishUnflagged(action, params, outcome) ==
    IF outcome.ok
    THEN SuccessResult(action, params, outcome.value)
    ELSE [type |-> "tool_result", tool_use_id |-> params.tool_use_id,
          content |-> JStr("Error: " \o outcome.error)]

\* executeComputerAction after its invoke came back with outcome.
ExecFinish(action, params, outcome) ==
    IF outcome.ok
    THEN SuccessResult(action, params, outcome.value)
    ELSE ErrorResult(params, outcome.error)

\* ------------------------------------------------------ the progress events

\* IterationEvent numbering the iterations from zero.
IterationEventZeroBased(i) ==
    [type |-> "action",
     content |-> "Iteration " \o ToString(i - 1) \o "/" \o ToString(config.maxIterations),
     data |-> [iteration |-> i - 1]]

IterationEvent(i) ==
    [type |-> "action",
     content |-> "Iteration " \o ToString(i) \o "/" \o ToString(config.maxIterations),
     data |-> [iteration |-> i]]

ApiErrorEvent(response) ==
    [type |-> "error",
     content |-> "API Error: " \o ToString(response.status) \o " - " \o response.text]

NarrationEvent(block) ==
    IF block.type = "text"
    THEN [type |-> "text", content |-> block.text]
    ELSE [type |-> "thinking", content |-> block.thinking]

CompleteEvent == [type |-> "complete", content |-> "Task completed successfully"]

ExecutingEvent(input) ==
    [type |-> "action", content |-> "Executing: " \o ActionOf(input),
     data |-> [action |-> ActionOf(input), params |-> input]]

BudgetEvent ==
    [type |-> "error",
     content |-> "Reached maximum iterations (" \o ToString(config.maxIterations) \o ")"]

CatchEvent(message) == [type |-> "error", content |-> "Error: " \o message]

\* ------------------------------------------------------------ the loop body
\* A yield: the event goes to the consumer and the generator is suspended at
\* label; a return() queued while the generator ran ends it at this yield.
Yield(s, event, label) ==
    [s EXCEPT !.trace = Append(@, [kind |-> "yield", event |-> event]),
              !.pc = IF returnRequested THEN "cancelled" ELSE label]

\* The catch clause of computerUseAgentLoop.
Catch(s, message) == Yield(s, CatchEvent(message), "y_catch")

\* LoopHead with the budget test off by one (<= for <).
LoopHeadOffByOne(s) ==
    IF s.iterations <= config.maxIterations
    THEN Yield([s EXCEPT !.iterations = @ + 1], IterationEvent(s.iterations + 1), "y_iteration")
    ELSE Yield(s, BudgetEvent, "y_budget")


\* LoopHead without the budget test (while (true)).
LoopHeadNoBudget(s) ==
    Yield([s EXCEPT !.iterations = @ + 1], IterationEvent(s.iterations + 1), "y_iteration")


\* LoopHead as a do-while: the first pass is made before the budget is tested.
LoopHeadDoWhile(s) ==
    IF s.iterations = 0 \/ s.iterations < config.maxIterations
    THEN Yield([s EXCEPT !.iterations = @ + 1], IterationEvent(s.iterations + 1), "y_iteration")
    ELSE Yield(s, BudgetEvent, "y_budget")

\* The while condition, the increment and the Iteration yield; the yield
\* after the loop when the condition fails.
LoopHead(s) ==
    IF s.iterations < config.maxIterations
    THEN Yield([s EXCEPT !.iterations = @ + 1], IterationEvent(s.iterations + 1), "y_iteration")
    ELSE Yield(s, BudgetEvent, "y_budget")

\* data.content.filter(block => block.type === "tool_use")
ToolUses(d) == SelectSeq(d.content.items, LAMBDA b : b.type = "tool_use")

\* One turn of the for-of loop over toolUses, up to its yield: reading
\* toolUse.input.action raises when the block has no input.
StartToolUse(s, d, k) ==
    LET toolUse == ToolUses(d)[k]
    IN  IF ~Has(toolUse, "input")
        THEN Catch(s, "Cannot read properties of undefined (reading 'action')")
        ELSE Yield([s EXCEPT !.tuIdx = k], ExecutingEvent(toolUse.input), "y_action")

\* AfterBlocks going round the loop again on a reply without tool use.
AfterBlocksContinues(s, d) ==
    IF Len(ToolUses(d)) = 0
    THEN LoopHead(s)
    ELSE StartToolUse([s EXCEPT !.toolResults = <<>>], d, 1)


\* AfterBlocks looking at the stop reason of a reply without tool use: only
\* end_turn completes, anything else goes round the loop again.
AfterBlocksChecksStop(s, d) ==
    IF Len(ToolUses(d)) = 0
    THEN IF d.stop_reason = "end_turn"
         THEN Yield(s, CompleteEvent, "y_complete")
         ELSE LoopHead(s)
    ELSE StartToolUse([s EXCEPT !.toolResults = <<>>], d, 1)


\* AfterBlocks giving up on the last iteration of the budget before the tool
\* uses of its reply are executed.
AfterBlocksBudgetFirst(s, d) ==
    IF Len(ToolUses(d)) = 0
    THEN Yield(s, CompleteEvent, "y_complete")
    ELSE IF s.iterations >= config.maxIterations
    THEN Yield(s, BudgetEvent, "y_budget")
    ELSE StartToolUse([s EXCEPT !.toolResults = <<>>], d, 1)

\* After the narration loop: no tool use completes the task, else the
\* tool uses are executed from the first one.
AfterBlocks(s, d) ==
    IF Len(ToolUses(d)) = 0
    THEN Yield(s, CompleteEvent, "y_complete")
    ELSE StartToolUse([s EXCEPT !.toolResults = <<>>], d, 1)

\* First index after from of a text or thinking block, 0 when there is none.
NextNarration(items, from) ==
    LET later == {j \in (from + 1)..Len(items) : items[j].type \in {"text", "thinking"}}
    IN  IF later = {} THEN 0 ELSE CHOOSE j \in later : \A k \in later : j <= k


\* ScanBlocks without the narration events: straight to the tool uses.
ScanBlocksSilent(s, d, from) == AfterBlocks(s, d)

\* The for-of loop over data.content, continued after index from.
ScanBlocks(s, d, from) ==
    LET j == NextNarration(d.content.items, from)
    IN  IF j # 0
        THEN Yield([s EXCEPT !.blockIdx = j], NarrationEvent(d.content.items[j]), "y_text")
        ELSE AfterBlocks(s, d)

\* OnReply storing the reply over the last turn instead of appending it.
OnReplyOverwrites(s, d) ==
    LET s1 == [s EXCEPT !.messages[Len(s.messages)] =
                            [role |-> "assistant", content |-> d.content]]
    IN  IF d.content.json # "array"
        THEN Catch(s1, "data.content is not iterable")
        ELSE ScanBlocks(s1, d, 0)


\* OnReply taking a content that is no list for a reply without blocks.
OnReplyLenient(s, d) ==
    LET s1 == [s EXCEPT !.messages = Append(@, [role |-> "assistant", content |-> d.content])]
    IN  IF d.content.json # "array"
        THEN Yield(s1, CompleteEvent, "y_complete")
        ELSE ScanBlocks(s1, d, 0)


\* OnReply keeping the reasoning blocks out of the assistant turn.
OnReplyDropsThinking(s, d) ==
    LET kept == IF d.content.json = "array"
                THEN JArr(SelectSeq(d.content.items, LAMBDA b : b.type # "thinking"))
                ELSE d.content
        s1 == [s EXCEPT !.messages = Append(@, [role |-> "assistant", content |-> kept])]
    IN  IF d.content.json # "array"
        THEN Catch(s1, "data.content is not iterable")
        ELSE ScanBlocks(s1, d, 0)

\* The reply parsed: it is pushed as the assistant turn, then scanned.
OnReply(s, d) ==
    LET s1 == [s EXCEPT !.messages = Append(@, [role |-> "assistant", content |-> d.content])]
    IN  IF d.content.json # "array"
        THEN Catch(s1, "data.content is not iterable")
        ELSE ScanBlocks(s1, d, 0)

\* AfterResult putting each result in front of the earlier ones.
AfterResultReversed(s, d, result) ==
    LET s1 == [s EXCEPT !.toolResults = <<result>> \o @]
        s2 == [s1 EXCEPT !.messages =
                  Append(@, [role |-> "user", content |-> JArr(s1.toolResults)])]
    IN  IF s.tuIdx < Len(ToolUses(d))
        THEN StartToolUse(s1, d, s.tuIdx + 1)
        ELSE IF d.stop_reason = "end_turn"
        THEN Yield(s2, CompleteEvent, "y_complete")
        ELSE LoopHead(s2)

\* AfterResult leaving the tool-result turn out of the transcript.
AfterResultNoPush(s, d, result) ==
    LET s1 == [s EXCEPT !.toolResults = Append(@, result)]
    IN  IF s.tuIdx < Len(ToolUses(d))
        THEN StartToolUse(s1, d, s.tuIdx + 1)
        ELSE IF d.stop_reason = "end_turn"
        THEN Yield(s1, CompleteEvent, "y_complete")
        ELSE LoopHead(s1)

\* AfterResult completing on every stop reason but "tool_use".
AfterResultAnyStop(s, d, result) ==
    LET s1 == [s EXCEPT !.toolResults = Append(@, result)]
        s2 == [s1 EXCEPT !.messages =
                  Append(@, [role |-> "user", content |-> JArr(s1.toolResults)])]
    IN  IF s.tuIdx < Len(ToolUses(d))
        THEN StartToolUse(s1, d, s.tuIdx + 1)
        ELSE IF d.stop_reason # "tool_use"
        THEN Yield(s2, CompleteEvent, "y_complete")
        ELSE LoopHead(s2)


\* AfterResult going round the loop again whatever the stop reason is.
AfterResultIgnoresStop(s, d, result) ==
    LET s1 == [s EXCEPT !.toolResults = Append(@, result)]
        s2 == [s1 EXCEPT !.messages =
                  Append(@, [role |-> "user", content |-> JArr(s1.toolResults)])]
    IN  IF s.tuIdx < Len(ToolUses(d))
        THEN StartToolUse(s1, d, s.tuIdx + 1)
        ELSE LoopHead(s2)


\* AfterResult pushing the tool results as an assistant turn.
AfterResultAsAssistant(s, d, result) ==
    LET s1 == [s EXCEPT !.toolResults = Append(@, result)]
        s2 == [s1 EXCEPT !.messages =
                  Append(@, [role |-> "assistant", content |-> JArr(s1.toolResults)])]
    IN  IF s.tuIdx < Len(ToolUses(d))
        THEN StartToolUse(s1, d, s.tuIdx + 1)
        ELSE IF d.stop_reason = "end_turn"
        THEN Yield(s2, CompleteEvent, "y_complete")
        ELSE LoopHead(s2)


\* AfterResult completing after the first round of tools, whatever the stop
\* reason is.
AfterResultOneRound(s, d, result) ==
    LET s1 == [s EXCEPT !.toolResults = Append(@, result)]
        s2 == [s1 EXCEPT !.messages =
                  Append(@, [role |-> "user", content |-> JArr(s1.toolResults)])]
    IN  IF s.tuIdx < Len(ToolUses(d))
        THEN StartToolUse(s1, d, s.tuIdx + 1)
        ELSE Yield(s2, CompleteEvent, "y_complete")

\* A dispatch came back with result: it is pushed to toolResults; after the
\* last one the tool-result turn is pushed and the stop reason is checked.
AfterResult(s, d, result) ==
    LET s1 == [s EXCEPT !.toolResults = Append(@, result)]
        s2 == [s1 EXCEPT !.messages =
                  Append(@, [role |-> "user", content |-> JArr(s1.toolResults)])]
    IN  IF s.tuIdx < Len(ToolUses(d))
        THEN StartToolUse(s1, d, s.tuIdx + 1)
        ELSE IF d.stop_reason = "end_turn"
        THEN Yield(s2, CompleteEvent, "y_complete")
        ELSE LoopHead(s2)


\* FetchRequest sending the last turn only instead of the whole transcript.
FetchRequestLastTurn(s) ==
    [kind |-> "fetch",
     body |-> [model |-> config.model, max_tokens |-> 4096,
               messages |-> <<s.messages[Len(s.messages)]>>,
               tools |-> <<[type |-> "computer_20250124", name |-> "computer",
                            display_width_px |-> config.displayWidth,
                            display_height_px |-> config.displayHeight,
                            display_number |-> 1]>>]]

\* The request of one endpoint call.
FetchRequest(s) ==
    [kind |-> "fetch",
     body |-> [model |-> config.model, max_tokens |-> 4096, messages |-> s.messages,
               tools |-> <<[type |-> "computer_20250124", name |-> "computer",
                            display_width_px |-> config.displayWidth,
                            display_height_px |-> config.displayHeight,
                            display_number |-> 1]>>]]

\* ---------------------------------------------------------------- actions
Assign(s) ==
    /\ messages' = s.messages
    /\ iterations' = s.iterations
    /\ pc' = s.pc
    /\ blockIdx' = s.blockIdx
    /\ tuIdx' = s.tuIdx
    /\ toolResults' = s.toolResults
    /\ trace' = s.trace

Init ==
    /\ AppIdle
    /\ config \in {[maxIterations |-> m, displayWidth |-> 1024, displayHeight |-> 768,
                    model |-> "claude-sonnet-4-5-20250929"] : m \in 0..MaxBudget}
    /\ onActionExecuted \in ObserverModes
    /\ messages = <<[role |-> "user", content |-> JStr(UserMessage)]>>
    /\ iterations = 0
    /\ pc = "start"
    /\ data = NoData
    /\ blockIdx = 0
    /\ tuIdx = 0
    /\ toolResults = <<>>
    /\ pending = NoPending
    /\ trace = <<>>
    /\ returnRequested = FALSE
    /\ blocksLeft = MaxBlocks

\* The first next(): the generator runs to its first yield.
Begin ==
    /\ pc = "start"
    /\ Assign(LoopHead(st))
    /\ UNCHANGED <<appVars, config, onActionExecuted, data, pending, returnRequested, blocksLeft>>

\* next() at the Iteration yield: the endpoint is called.
CallEndpoint ==
    /\ pc = "y_iteration"
    /\ Assign([st EXCEPT !.trace = Append(@, FetchRequest(st)), !.pc = "await_fetch"])
    /\ UNCHANGED <<appVars, config, onActionExecuted, data, pending, returnRequested, blocksLeft>>

\* OnResponse trying again after a response that is not ok.
OnResponseRetries(s, response) ==
    IF response.kind = "reject" THEN Catch(s, response.message)
    ELSE IF ~response.ok THEN LoopHead(s)
    ELSE IF ~response.parses THEN Catch(s, response.message)
    ELSE OnReply(s, response.data)

\* What the loop does with the response of the endpoint.
OnResponse(s, response) ==
    IF response.kind = "reject" THEN Catch(s, response.message)
    ELSE IF ~response.ok THEN Yield(s, ApiErrorEvent(response), "y_api_error")
    ELSE IF ~response.parses THEN Catch(s, response.message)
    ELSE OnReply(s, response.data)

\* The endpoint call comes back.
FetchReturn ==
    /\ pc = "await_fetch"
    /\ \E response \in Responses(blocksLeft) :
          LET parsed == response.kind = "http" /\ response.ok /\ response.parses
              used == IF parsed /\ response.data.content.json = "array"
                      THEN Len(response.data.content.items) ELSE 0
              s == [st EXCEPT !.trace = Append(@, [kind |-> "fetch_return",
                                                  response |-> response])]
          IN  /\ Assign(OnResponse(s, response))
              /\ data' = IF parsed THEN response.data ELSE data
              /\ blocksLeft' = blocksLeft - used
    /\ UNCHANGED <<appVars, config, onActionExecuted, pending, returnRequested>>

\* next() at a Text or Thinking yield: the scan of the reply goes on.
ResumeNarration ==
    /\ pc = "y_text"
    /\ Assign(ScanBlocks(st, data, blockIdx))
    /\ UNCHANGED <<appVars, config, onActionExecuted, data, pending, returnRequested, blocksLeft>>

\* The trace of executeComputerAction up to its first await.
DispatchTrace(action, params, start) ==
    <<[kind |-> "dispatch", action |-> action, params |-> params]>>
    \o (IF start.observed
     THEN <<[kind |-> "observer", action |-> action, params |-> params]>> ELSE <<>>)
    \o (IF start.call # <<>>
        THEN <<[kind |-> "invoke", call |-> start.call[1]]>> ELSE <<>>)

\* Dispatch without the await: the next tool use is started while this one
\* is still running.
DispatchNoAwait ==
    /\ pc = "y_action"
    /\ LET toolUse == ToolUses(data)[tuIdx]
           action == ActionOf(toolUse.input)
           params == ParamsOf(toolUse)
           start == ExecStart(action, params, onActionExecuted)
           s == [st EXCEPT !.trace = @ \o DispatchTrace(action, params, start)]
       IN  /\ pending' = start
           /\ IF tuIdx < Len(ToolUses(data))
              THEN Assign(StartToolUse(s, data, tuIdx + 1))
              ELSE Assign([s EXCEPT !.pc = "await_action"])
    /\ UNCHANGED <<appVars, config, onActionExecuted, data, returnRequested, blocksLeft>>

\* next() at an Executing yield: executeComputerAction is called and awaited.
Dispatch ==
    /\ pc = "y_action"
    /\ LET toolUse == ToolUses(data)[tuIdx]
           action == ActionOf(toolUse.input)
           params == ParamsOf(toolUse)
           start == ExecStart(action, params, onActionExecuted)
       IN  /\ pending' = start
           /\ Assign([st EXCEPT !.trace = @ \o DispatchTrace(action, params, start),
                                !.pc = "await_action"])
    /\ UNCHANGED <<appVars, config, onActionExecuted, data, returnRequested, blocksLeft>>

ReturnEntry(result) == [kind |-> "dispatch_return", result |-> result]

\* DispatchReturn without the catch clause of executeComputerAction: a failure
\* of the executor reaches the catch clause of the loop.
DispatchReturnRethrows ==
    /\ pc = "await_action"
    /\ LET toolUse == ToolUses(data)[tuIdx]
           action == ActionOf(toolUse.input)
           params == ParamsOf(toolUse)
       IN  IF pending.call = <<>>
           THEN Assign(AfterResult(
                    [st EXCEPT !.trace = Append(@, ReturnEntry(pending.settled[1]))],
                    data, pending.settled[1]))
           ELSE \E outcome \in InvokeOutcomes(pending.call[1].cmd) :
                   LET result == ExecFinish(action, params, outcome)
                       s == [st EXCEPT !.trace = Append(@, [kind |-> "invoke_return",
                                                            ok |-> outcome.ok])]
                   IN  IF outcome.ok
                       THEN Assign(AfterResult(
                                [s EXCEPT !.trace = Append(@, ReturnEntry(result))],
                                data, result))
                       ELSE Assign(Catch(s, outcome.error))
    /\ pending' = NoPending
    /\ UNCHANGED <<appVars, config, onActionExecuted, data, returnRequested, blocksLeft>>

\* The awaited executeComputerAction settles: at once when it issued no
\* invoke, else when the invoke comes back.
DispatchReturn ==
    /\ pc = "await_action"
    /\ LET toolUse == ToolUses(data)[tuIdx]
           action == ActionOf(toolUse.input)
           params == ParamsOf(toolUse)
       IN  IF pending.call = <<>>
           THEN Assign(AfterResult(
                    [st EXCEPT !.trace = Append(@, ReturnEntry(pending.settled[1]))],
                    data, pending.settled[1]))
           ELSE \E outcome \in InvokeOutcomes(pending.call[1].cmd) :
                   LET result == ExecFinish(action, params, outcome)
                   IN  Assign(AfterResult(
                           [st EXCEPT !.trace = @ \o <<[kind |-> "invoke_return",
                                                        ok |-> outcome.ok],
                                                       ReturnEntry(result)>>],
                           data, result))
    /\ pending' = NoPending
    /\ UNCHANGED <<appVars, config, onActionExecuted, data, returnRequested, blocksLeft>>

TerminalYields == {"y_api_error", "y_complete", "y_budget", "y_catch"}
OpenYields == {"y_iteration", "y_text", "y_action"}
Awaits == {"await_fetch", "await_action"}


\* Finish without the return that follows the terminal yield: the session
\* goes back to the while test.
FinishResumes ==
    /\ pc \in TerminalYields
    /\ Assign(LoopHead(st))
    /\ UNCHANGED <<appVars, config, onActionExecuted, data, pending, returnRequested, blocksLeft>>

\* next() or return() at a terminal yield: the generator completes.
Finish ==
    /\ pc \in TerminalYields
    /\ pc' = "done"
    /\ UNCHANGED <<appVars, config, onActionExecuted, messages, iterations, data, blockIdx,
                   tuIdx, toolResults, pending, trace, returnRequested, blocksLeft>>

\* return() while the generator is suspended at a yield inside the loop.
Cancel ==
    /\ pc \in OpenYields
    /\ pc' = "cancelled"
    /\ UNCHANGED <<appVars, config, onActionExecuted, messages, iterations, data, blockIdx,
                   tuIdx, toolResults, pending, trace, returnRequested, blocksLeft>>

\* return() while the generator awaits: the request is queued.
RequestReturn ==
    /\ pc \in Awaits
    /\ ~returnRequested
    /\ returnRequested' = TRUE
    /\ UNCHANGED <<appVars, config, onActionExecuted, messages, iterations, pc, data, blockIdx,
                   tuIdx, toolResults, pending, trace, blocksLeft>>

Next ==
    \/ Begin
    \/ CallEndpoint
    \/ FetchReturn
    \/ ResumeNarration
    \/ Dispatch
    \/ DispatchReturn
    \/ Finish
    \/ Cancel
    \/ RequestReturn

Spec == Init /\ [][Next]_vars



\* ------------------------------------------------ a session that is driven
\* The consumer asks for the next event while the generator is suspended at a
\* yield inside the loop or before its first step.
ConsumerPulls ==
    \/ Begin
    \/ CallEndpoint
    \/ ResumeNarration
    \/ Dispatch

\* The sessions of Init whose endpoint sends LiveBlocks blocks at most.
InitLive ==
    /\ AppIdle
    /\ config \in {[maxIterations |-> m, displayWidth |-> 1024, displayHeight |-> 768,
                    model |-> "claude-sonnet-4-5-20250929"] : m \in 0..MaxBudget}
    /\ onActionExecuted \in ObserverModes
    /\ messages = <<[role |-> "user", content |-> JStr(UserMessage)]>>
    /\ iterations = 0
    /\ pc = "start"
    /\ data = NoData
    /\ blockIdx = 0
    /\ tuIdx = 0
    /\ toolResults = <<>>
    /\ pending = NoPending
    /\ trace = <<>>
    /\ returnRequested = FALSE
    /\ blocksLeft = LiveBlocks


\* The sessions of InitLive, without any assumption on their progress.
ShortSpec == InitLive /\ [][Next]_vars


\* The sessions of InitLive and those started with a budget that is not
\* positive: computerUseAgentLoop takes whatever config it is given.
InitAnyBudget ==
    /\ AppIdle
    /\ config \in {[maxIterations |-> m, displayWidth |-> 1024, displayHeight |-> 768,
                    model |-> "claude-sonnet-4-5-20250929"] : m \in (0 - MaxDeficit)..MaxBudget}
    /\ onActionExecuted \in ObserverModes
    /\ messages = <<[role |-> "user", content |-> JStr(UserMessage)]>>
    /\ iterations = 0
    /\ pc = "start"
    /\ data = NoData
    /\ blockIdx = 0
    /\ tuIdx = 0
    /\ toolResults = <<>>
    /\ pending = NoPending
    /\ trace = <<>>
    /\ returnRequested = FALSE
    /\ blocksLeft = LiveBlocks

SpecAnyBudget == InitAnyBudget /\ [][Next]_vars

\* The session with a consumer that keeps pulling (unless it ends the
\* session with return()), an endpoint whose every call comes back and an
\* executor whose every call comes back.
LiveSpec ==
    /\ InitLive
    /\ [][Next]_vars
    /\ WF_vars(ConsumerPulls)
    /\ WF_vars(FetchReturn)
    /\ WF_vars(DispatchReturn)

\* ------------------------------------------- the dispatcher on every action
\* The endpoint call comes back with a reply of DispatchResponses.
FetchReturnTool ==
    /\ pc = "await_fetch"
    /\ \E response \in DispatchResponses(blocksLeft) :
          LET s == [st EXCEPT !.trace = Append(@, [kind |-> "fetch_return",
                                                  response |-> response])]
          IN  /\ Assign(OnResponse(s, response))
              /\ data' = response.data
              /\ blocksLeft' = blocksLeft - Len(response.data.content.items)
    /\ UNCHANGED <<appVars, config, onActionExecuted, pending, returnRequested>>

\* A session whose endpoint asks for one action, any of DispatchInputs.
InitDispatch ==
    /\ AppIdle
    /\ config \in {[maxIterations |-> m, displayWidth |-> 1024, displayHeight |-> 768,
                    model |-> "claude-sonnet-4-5-20250929"] : m \in 0..MaxBudget}
    /\ onActionExecuted \in ObserverModes
    /\ messages = <<[role |-> "user", content |-> JStr(UserMessage)]>>
    /\ iterations = 0
    /\ pc = "start"
    /\ data = NoData
    /\ blockIdx = 0
    /\ tuIdx = 0
    /\ toolResults = <<>>
    /\ pending = NoPending
    /\ trace = <<>>
    /\ returnRequested = FALSE
    /\ blocksLeft = 1

NextDispatch ==
    \/ Begin
    \/ CallEndpoint
    \/ FetchReturnTool
    \/ Dispatch
    \/ DispatchReturn
    \/ Finish

SpecDispatch == InitDispatch /\ [][NextDispatch]_vars


\* ------------------------------------------------- two concurrent sessions
\* Two calls of computerUseAgentLoop run in the same webview, each with its
\* own userMessage, on one endpoint and one Action Executor.  In SpecTwo every
\* variable that holds a local of the generator (messages, iterations, pc,
\* data, blockIdx, tuIdx, toolResults, pending, trace, blocksLeft) holds a
\* pair, one component per call; both calls get the same config, no observer,
\* and neither is ended with return().
Sessions == {1, 2}

TwoSeeds == <<"open the calculator", "close the window">>

\* The replies of the endpoint to session k: one action at a time while it
\* has blocks left (n > 0), then a reply without tool use.
TwoResponses(k, n) ==
    IF n = 0
    THEN { [kind |-> "http", ok |-> TRUE, status |-> 200, parses |-> TRUE,
            data |-> [content |-> JArr(<<>>), stop_reason |-> "end_turn"]] }
    ELSE { [kind |-> "http", ok |-> TRUE, status |-> 200, parses |-> TRUE,
            data |-> [content |-> JArr(<<[type |-> "tool_use",
                                          id |-> "toolu_" \o ToString(k),
                                          input |-> input]>>),
                      stop_reason |-> s]] :
              input \in {[action |-> "left_click", coordinate |-> <<10, 20>>],
                         [action |-> "fly"]},
              s \in {"tool_use", "end_turn"} }

\* The locals of call k, as the record the loop body works on.
Session(k) ==
    [messages |-> messages[k], iterations |-> iterations[k], pc |-> pc[k],
     blockIdx |-> blockIdx[k], tuIdx |-> tuIdx[k], toolResults |-> toolResults[k],
     trace |-> trace[k]]

\* PutSession with one transcript for all calls (a module-level messages).
PutSessionShared(k, s) ==
    /\ messages' = [j \in Sessions |-> s.messages]
    /\ iterations' = [iterations EXCEPT ![k] = s.iterations]
    /\ pc' = [pc EXCEPT ![k] = s.pc]
    /\ blockIdx' = [blockIdx EXCEPT ![k] = s.blockIdx]
    /\ tuIdx' = [tuIdx EXCEPT ![k] = s.tuIdx]
    /\ toolResults' = [toolResults EXCEPT ![k] = s.toolResults]
    /\ trace' = [trace EXCEPT ![k] = s.trace]

\* The locals of call k after a step; those of the other call are untouched.
PutSession(k, s) ==
    /\ messages' = [messages EXCEPT ![k] = s.messages]
    /\ iterations' = [iterations EXCEPT ![k] = s.iterations]
    /\ pc' = [pc EXCEPT ![k] = s.pc]
    /\ blockIdx' = [blockIdx EXCEPT ![k] = s.blockIdx]
    /\ tuIdx' = [tuIdx EXCEPT ![k] = s.tuIdx]
    /\ toolResults' = [toolResults EXCEPT ![k] = s.toolResults]
    /\ trace' = [trace EXCEPT ![k] = s.trace]

InitTwo ==
    /\ AppIdle
    /\ config = [maxIterations |-> MaxBudget, displayWidth |-> 1024,
                 displayHeight |-> 768, model |-> "claude-sonnet-4-5-20250929"]
    /\ onActionExecuted = "none"
    /\ messages = [k \in Sessions |-> <<[role |-> "user", content |-> JStr(TwoSeeds[k])]>>]
    /\ iterations = [k \in Sessions |-> 0]
    /\ pc = [k \in Sessions |-> "start"]
    /\ data = [k \in Sessions |-> NoData]
    /\ blockIdx = [k \in Sessions |-> 0]
    /\ tuIdx = [k \in Sessions |-> 0]
    /\ toolResults = [k \in Sessions |-> <<>>]
    /\ pending = [k \in Sessions |-> NoPending]
    /\ trace = [k \in Sessions |-> <<>>]
    /\ returnRequested = FALSE
    /\ blocksLeft = [k \in Sessions |-> TwoBlocks]

\* Begin, for call k.
TwoBegin(k) ==
    /\ pc[k] = "start"
    /\ PutSession(k, LoopHead(Session(k)))
    /\ UNCHANGED <<appVars, config, onActionExecuted, data, pending, returnRequested, blocksLeft>>

\* CallEndpoint, for call k.
TwoCallEndpoint(k) ==
    /\ pc[k] = "y_iteration"
    /\ PutSession(k, [Session(k) EXCEPT !.trace = Append(@, FetchRequest(Session(k))),
                                       !.pc = "await_fetch"])
    /\ UNCHANGED <<appVars, config, onActionExecuted, data, pending, returnRequested, blocksLeft>>

\* The endpoint call of call k comes back.
TwoFetchReturn(k) ==
    /\ pc[k] = "await_fetch"
    /\ \E response \in TwoResponses(k, blocksLeft[k]) :
          LET s == [Session(k) EXCEPT !.trace = Append(@, [kind |-> "fetch_return",
                                                          response |-> response])]
          IN  /\ PutSession(k, OnResponse(s, response))
              /\ data' = [data EXCEPT ![k] = response.data]
              /\ blocksLeft' = [blocksLeft EXCEPT
                                   ![k] = @ - Len(response.data.content.items)]
    /\ UNCHANGED <<appVars, config, onActionExecuted, pending, returnRequested>>

\* TwoDispatch behind a global lock: no dispatch while the executor runs a
\* call of the other session.
TwoDispatchLocked(k) ==
    /\ pc[k] = "y_action"
    /\ \A j \in Sessions \ {k} : pending[j].call = <<>>
    /\ LET toolUse == ToolUses(data[k])[tuIdx[k]]
           action == ActionOf(toolUse.input)
           params == ParamsOf(toolUse)
           start == ExecStart(action, params, onActionExecuted)
       IN  /\ pending' = [pending EXCEPT ![k] = start]
           /\ PutSession(k, [Session(k) EXCEPT
                                !.trace = @ \o DispatchTrace(action, params, start),
                                !.pc = "await_action"])
    /\ UNCHANGED <<appVars, config, onActionExecuted, data, returnRequested, blocksLeft>>

\* Dispatch, for call k: nothing but its own Executing yield guards it.
TwoDispatch(k) ==
    /\ pc[k] = "y_action"
    /\ LET toolUse == ToolUses(data[k])[tuIdx[k]]
           action == ActionOf(toolUse.input)
           params == ParamsOf(toolUse)
           start == ExecStart(action, params, onActionExecuted)
       IN  /\ pending' = [pending EXCEPT ![k] = start]
           /\ PutSession(k, [Session(k) EXCEPT
                                !.trace = @ \o DispatchTrace(action, params, start),
                                !.pc = "await_action"])
    /\ UNCHANGED <<appVars, config, onActionExecuted, data, returnRequested, blocksLeft>>

\* DispatchReturn, for call k.
TwoDispatchReturn(k) ==
    /\ pc[k] = "await_action"
    /\ LET toolUse == ToolUses(data[k])[tuIdx[k]]
           action == ActionOf(toolUse.input)
           params == ParamsOf(toolUse)
       IN  IF pending[k].call = <<>>
           THEN PutSession(k, AfterResult(
                    [Session(k) EXCEPT
                        !.trace = Append(@, ReturnEntry(pending[k].settled[1]))],
                    data[k], pending[k].settled[1]))
           ELSE \E outcome \in InvokeOutcomes(pending[k].call[1].cmd) :
                   LET result == ExecFinish(action, params, outcome)
                   IN  PutSession(k, AfterResult(
                           [Session(k) EXCEPT
                               !.trace = @ \o <<[kind |-> "invoke_return",
                                                 ok |-> outcome.ok],
                                                ReturnEntry(result)>>],
                           data[k], result))
    /\ pending' = [pending EXCEPT ![k] = NoPending]
    /\ UNCHANGED <<appVars, config, onActionExecuted, data, returnRequested, blocksLeft>>

\* Finish, for call k.
TwoFinish(k) ==
    /\ pc[k] \in TerminalYields
    /\ pc' = [pc EXCEPT ![k] = "done"]
    /\ UNCHANGED <<appVars, config, onActionExecuted, messages, iterations, data, blockIdx,
                   tuIdx, toolResults, pending, trace, returnRequested, blocksLeft>>

NextTwo ==
    \E k \in Sessions :
        \/ TwoBegin(k)
        \/ TwoCallEndpoint(k)
        \/ TwoFetchReturn(k)
        \/ TwoDispatch(k)
        \/ TwoDispatchReturn(k)
        \/ TwoFinish(k)

SpecTwo == InitTwo /\ [][NextTwo]_vars

\* ------------------------------------------------------ settings handlers
\* Longest string typed into a settings field.
MaxChars == 3

\* The characters the strings are typed from, those a number field lets
\* through: a sign, two digits and the decimal point.
Chars == {"-", "0", "2", "."}

\* e.target.value: a string, as the sequence of its characters.
EditInputs == SeqsUpTo(Chars, MaxChars)

\* The digits of parseInt in the order of their values.
Digits == <<"0", "1", "2", "3", "4", "5", "6", "7", "8", "9",
            "a", "b", "c", "d", "e", "f">>
IsDigit(c, R) == \E i \in 1..R : Digits[i] = c
DigitValue(c) == (CHOOSE i \in 1..Len(Digits) : Digits[i] = c) - 1

RECURSIVE TrimStart(_)
TrimStart(s) ==
    IF s # <<>> /\ Head(s) = " " THEN TrimStart(Tail(s)) ELSE s

\* The longest prefix of s made of digits of radix R.
RECURSIVE DigitPrefix(_, _)
DigitPrefix(s, R) ==
    IF s # <<>> /\ IsDigit(Head(s), R)
    THEN <<Head(s)>> \o DigitPrefix(Tail(s), R)
    ELSE <<>>

\* The integer the digits z denote in radix R.
RECURSIVE MathInt(_, _)
MathInt(z, R) ==
    IF z = <<>>
    THEN 0
    ELSE MathInt(SubSeq(z, 1, Len(z) - 1), R) * R + DigitValue(z[Len(z)])

\* A JavaScript number: NaN or a value.
NaN == [isNaN |-> TRUE]
Number(n) == [isNaN |-> FALSE, value |-> n]

\* parseInt(value) without a radix: leading white space is skipped, a sign
\* is read, a leading 0x selects radix 16, the longest prefix of digits is
\* the value and what follows it is ignored; no digit at all gives NaN.
parseInt(value) ==
    LET trimmed == TrimStart(value)
        negative == trimmed # <<>> /\ Head(trimmed) = "-"
        unsigned == IF trimmed # <<>> /\ Head(trimmed) \in {"+", "-"}
                    THEN Tail(trimmed)
                    ELSE trimmed
        hex == /\ Len(unsigned) >= 2
               /\ unsigned[1] = "0"
               /\ unsigned[2] \in {"x", "X"}
        R == IF hex THEN 16 ELSE 10
        body == IF hex THEN SubSeq(unsigned, 3, Len(unsigned)) ELSE unsigned
        z == DigitPrefix(body, R)
    IN  IF z = <<>>
        THEN NaN
        ELSE Number(IF negative THEN 0 - MathInt(z, R) ELSE MathInt(z, R))

handleDisplayWidthChange(prev, value) ==
    LET width == parseInt(value)
    IN  IF ~width.isNaN /\ width.value > 0
        THEN [prev EXCEPT !.displayWidth = width.value]
        ELSE prev

handleDisplayHeightChange(prev, value) ==
    LET height == parseInt(value)
    IN  IF ~height.isNaN /\ height.value > 0
        THEN [prev EXCEPT !.displayHeight = height.value]
        ELSE prev

\* handleMaxIterationsChange taking every number, positive or not.
handleMaxIterationsChangeUnchecked(prev, value) ==
    LET iterations_ == parseInt(value)
    IN  IF ~iterations_.isNaN
        THEN [prev EXCEPT !.maxIterations = iterations_.value]
        ELSE prev

handleMaxIterationsChange(prev, value) ==
    LET iterations_ == parseInt(value)
    IN  IF ~iterations_.isNaN /\ iterations_.value > 0
        THEN [prev EXCEPT !.maxIterations = iterations_.value]
        ELSE prev

\* No session of computerUseAgentLoop is running.
LoopIdle ==
    /\ onActionExecuted = "none"
    /\ messages = <<>>
    /\ iterations = 0
    /\ pc = "start"
    /\ data = NoData
    /\ blockIdx = 0
    /\ tuIdx = 0
    /\ toolResults = <<>>
    /\ pending = NoPending
    /\ trace = <<>>
    /\ returnRequested = FALSE
    /\ blocksLeft = 0

\* The settings panel on a configuration with positive values.
InitSettings ==
    /\ config \in {[enabled |-> TRUE, maxIterations |-> m, displayWidth |-> 1024,
                    displayHeight |-> 768, model |-> "claude-sonnet-4-5-20250929",
                    showLiveFeedback |-> TRUE] : m \in {1, 10}}
    /\ LoopIdle
    /\ AppIdle

EditDisplayWidth ==
    /\ \E value \in EditInputs : config' = handleDisplayWidthChange(config, value)
    /\ UNCHANGED <<loopVars, appVars>>

EditDisplayHeight ==
    /\ \E value \in EditInputs : config' = handleDisplayHeightChange(config, value)
    /\ UNCHANGED <<loopVars, appVars>>

EditMaxIterations ==
    /\ \E value \in EditInputs : config' = handleMaxIterationsChange(config, value)
    /\ UNCHANGED <<loopVars, appVars>>

NextSettings == EditDisplayWidth \/ EditDisplayHeight \/ EditMaxIterations

SpecSettings == InitSettings /\ [][NextSettings]_vars

\* ------------------------------------- getScreenSize, shouldUseExtabAPI
\* What invoke("computer_get_screen_size") settles with: a size, or a failure.
ScreenOutcomes ==
    { [ok |-> TRUE, value |-> [width |-> w, height |-> h]] :
          w \in {1280, 1920, 2560, 3840}, h \in {720, 1080, 1440, 2160} }
    \cup { [ok |-> FALSE, error |-> "command computer_get_screen_size not found"] }

\* What invoke("check_license_status") settles with.
LicenseOutcomes ==
    { [ok |-> TRUE, value |-> TRUE],
      [ok |-> TRUE, value |-> FALSE],
      [ok |-> FALSE, error |-> "license server unreachable"] }

\* What the flag is stored as, null when it was never stored.
FlagValues == {JNull, JStr("true"), JStr("false"), JStr("TRUE"), JStr("1"), JStr("")}

\* What safeLocalStorage.getItem(key) does: it gives the stored item, or it raises.
GetItemOutcomes(key) ==
    { [ok |-> TRUE, value |-> localStorage[key]],
      [ok |-> FALSE, error |-> "storage is not available"] }

NoOutcome == [ok |-> FALSE, error |-> "not called"]

\* getScreenSize raising what the executor raised.
GetScreenSizeRethrows(settled) ==
    IF settled.ok
    THEN [kind |-> "return", value |-> settled.value]
    ELSE [kind |-> "throw", error |-> settled.error]

\* getScreenSize once its invoke has settled: the result, or the fallback
\* of the catch.
GetScreenSizeReturn(settled) ==
    IF settled.ok
    THEN [kind |-> "return", value |-> settled.value]
    ELSE [kind |-> "return", value |-> [width |-> 1920, height |-> 1080]]

\* ShouldUseStart taking every stored flag for an enabled one.
ShouldUseStartLenient(read) ==
    IF ~read.ok
    THEN [fn |-> "shouldUseExtabAPI", pc |-> "returned", read |-> read,
          invoked |-> FALSE, settled |-> NoOutcome,
          outcome |-> [kind |-> "return", value |-> FALSE]]
    ELSE IF read.value = JNull
    THEN [fn |-> "shouldUseExtabAPI", pc |-> "returned", read |-> read,
          invoked |-> FALSE, settled |-> NoOutcome,
          outcome |-> [kind |-> "return", value |-> FALSE]]
    ELSE [fn |-> "shouldUseExtabAPI", pc |-> "await", read |-> read,
          invoked |-> TRUE, settled |-> NoOutcome]

\* shouldUseExtabAPI up to its await: a read that raises is caught and gives
\* false, a flag other than "true" gives false, and the flag "true" leads to
\* invoke("check_license_status").
ShouldUseStart(read) ==
    IF ~read.ok
    THEN [fn |-> "shouldUseExtabAPI", pc |-> "returned", read |-> read,
          invoked |-> FALSE, settled |-> NoOutcome,
          outcome |-> [kind |-> "return", value |-> FALSE]]
    ELSE IF read.value # JStr("true")
    THEN [fn |-> "shouldUseExtabAPI", pc |-> "returned", read |-> read,
          invoked |-> FALSE, settled |-> NoOutcome,
          outcome |-> [kind |-> "return", value |-> FALSE]]
    ELSE [fn |-> "shouldUseExtabAPI", pc |-> "await", read |-> read,
          invoked |-> TRUE, settled |-> NoOutcome]

\* shouldUseExtabAPI once the license check has settled.
ShouldUseReturn(settled) ==
    IF settled.ok
    THEN [kind |-> "return", value |-> settled.value]
    ELSE [kind |-> "return", value |-> FALSE]

\* The two helpers, not called yet, over what may be stored as the flag.
InitHelpers ==
    /\ config = [maxIterations |-> 1, displayWidth |-> 1024, displayHeight |-> 768,
                 model |-> "claude-sonnet-4-5-20250929"]
    /\ LoopIdle
    /\ localStorage \in {[k \in StorageKeys |->
                             IF k = "EXTAB_API_ENABLED" THEN f ELSE JNull] :
                          f \in FlagValues}
    /\ quickActions = <<>>
    /\ helper = NoCall

GetScreenSizeCall ==
    /\ helper.pc # "await"
    /\ helper' = [fn |-> "getScreenSize", pc |-> "await",
                  cmd |-> "computer_get_screen_size"]
    /\ UNCHANGED <<config, loopVars, localStorage, quickActions>>

GetScreenSizeSettle ==
    /\ helper.fn = "getScreenSize"
    /\ helper.pc = "await"
    /\ \E settled \in ScreenOutcomes :
          helper' = [fn |-> "getScreenSize", pc |-> "returned", settled |-> settled,
                     outcome |-> GetScreenSizeReturn(settled)]
    /\ UNCHANGED <<config, loopVars, localStorage, quickActions>>

ShouldUseCall ==
    /\ helper.pc # "await"
    /\ \E read \in GetItemOutcomes("EXTAB_API_ENABLED") :
          helper' = ShouldUseStart(read)
    /\ UNCHANGED <<config, loopVars, localStorage, quickActions>>

ShouldUseSettle ==
    /\ helper.fn = "shouldUseExtabAPI"
    /\ helper.pc = "await"
    /\ \E settled \in LicenseOutcomes :
          helper' = [helper EXCEPT !.pc = "returned", !.settled = settled] @@
                    [outcome |-> ShouldUseReturn(settled)]
    /\ UNCHANGED <<config, loopVars, localStorage, quickActions>>

NextHelpers ==
    GetScreenSizeCall \/ GetScreenSizeSettle \/ ShouldUseCall \/ ShouldUseSettle

SpecHelpers == InitHelpers /\ [][NextHelpers]_vars

\* ------------------------------------------- useSystemAudio: quick actions
\* The actions a user adds and removes; the empty string is what an empty
\* field hands over.
QuickNames == {"", "Summarize", "Translate", "Reply"}

\* quickActions.includes(action)
Includes(actions, action) == \E i \in 1..Len(actions) : actions[i] = action

\* JSON.stringify of a list of strings that need no escaping.
RECURSIVE JoinQuoted(_)
JoinQuoted(actions) ==
    IF actions = <<>>
    THEN ""
    ELSE "\"" \o Head(actions) \o "\""
         \o (IF Len(actions) > 1 THEN "," ELSE "")
         \o JoinQuoted(Tail(actions))

Stringify(actions) == "[" \o JoinQuoted(actions) \o "]"

\* saveQuickActions: the list is stored as JSON under its key; a setItem
\* that raises is caught and leaves what was stored.
saveQuickActions(storage, actions, stored) ==
    IF stored
    THEN [storage EXCEPT !["SYSTEM_AUDIO_QUICK_ACTIONS"] = JStr(Stringify(actions))]
    ELSE storage

\* addQuickAction without the test of includes.
addQuickActionUnchecked(actions, action) ==
    IF action # ""
    THEN [changed |-> TRUE, newActions |-> Append(actions, action)]
    ELSE [changed |-> FALSE]

\* addQuickAction: an action that is not empty and not in the list is put
\* at its end; otherwise nothing is set and nothing is saved.
addQuickAction(actions, action) ==
    IF action # "" /\ ~Includes(actions, action)
    THEN [changed |-> TRUE, newActions |-> Append(actions, action)]
    ELSE [changed |-> FALSE]

\* removeQuickAction: quickActions.filter((a) => a !== action)
removeQuickAction(actions, action) ==
    SelectSeq(actions, LAMBDA a : a # action)

\* The lists without duplicates over the names S.
DuplicateFreeLists(S) ==
    {q \in SeqsUpTo(S, Cardinality(S)) : \A i, j \in 1..Len(q) : q[i] = q[j] => i = j}

\* The hook after its mount effect: the list is the one that was stored,
\* or the default one when nothing was stored.
InitQuick ==
    /\ config = [maxIterations |-> 1, displayWidth |-> 1024, displayHeight |-> 768,
                 model |-> "claude-sonnet-4-5-20250929"]
    /\ LoopIdle
    /\ quickActions \in DuplicateFreeLists(QuickNames)
    /\ localStorage \in {[k \in StorageKeys |->
                             IF k = "SYSTEM_AUDIO_QUICK_ACTIONS" THEN v ELSE JNull] :
                          v \in {JNull, JStr(Stringify(quickActions))}}
    /\ helper = NoCall

AddQuickAction ==
    \E action \in QuickNames, stored \in BOOLEAN :
        LET r == addQuickAction(quickActions, action)
        IN  /\ IF r.changed
               THEN /\ quickActions' = r.newActions
                    /\ localStorage' = saveQuickActions(localStorage, r.newActions, stored)
               ELSE UNCHANGED <<quickActions, localStorage>>
            /\ helper' = [fn |-> "addQuickAction", pc |-> "returned", action |-> action,
                          quickActions |-> quickActions, localStorage |-> localStorage]
            /\ UNCHANGED <<config, loopVars>>

RemoveQuickAction ==
    \E action \in QuickNames, stored \in BOOLEAN :
        LET newActions == removeQuickAction(quickActions, action)
        IN  /\ quickActions' = newActions
            /\ localStorage' = saveQuickActions(localStorage, newActions, stored)
            /\ helper' = [fn |-> "removeQuickAction", pc |-> "returned", action |-> action,
                          quickActions |-> quickActions, localStorage |-> localStorage]
            /\ UNCHANGED <<config, loopVars>>

NextQuick == AddQuickAction \/ RemoveQuickAction

SpecQuick == InitQuick /\ [][NextQuick]_vars

TypeOK ==
    /\ iterations \in 0..MaxBudget
    /\ pc \in {"start", "done", "cancelled"} \cup TerminalYields \cup OpenYields \cup Awaits
    /\ blocksLeft \in 0..MaxBlocks

\* ------------------------------------------------- reading the trace
Entries(kind) == {i \in DOMAIN trace : trace[i].kind = kind}
Count(kind) == Cardinality(Entries(kind))

\* The progress events the consumer received, in order.
Events ==
    LET yields == SelectSeq(trace, LAMBDA e : e.kind = "yield")
    IN  [i \in DOMAIN yields |-> yields[i].event]

EventsOfType(type) == {i \in DOMAIN Events : Events[i].type = type}

LastEvent == Events[Len(Events)]

\* The responses the endpoint gave so far.
ResponsesSoFar == {trace[i].response : i \in Entries("fetch_return")}

\* The generator stopped at or after a terminal yield.
Terminated == pc \in TerminalYields \cup {"done"}

IsPrefix(p, q) == Len(p) <= Len(q) /\ \A i \in DOMAIN p : p[i] = q[i]

IsToolUse(block) == block.type = "tool_use"

\* The tool_use blocks of a turn of the transcript.
InvocationsOf(turn) ==
    IF turn.role = "assistant" /\ turn.content.json = "array"
    THEN SelectSeq(turn.content.items, IsToolUse)
    ELSE <<>>

IsError(result) == Has(result, "is_error") /\ result.is_error

\* The turn at k answers the turn before it: one result per invocation, in
\* the order of the invocations, the i-th with the id of the i-th.
Answers(m, k) ==
    LET invocations == InvocationsOf(m[k - 1])
        results == m[k].content.items
    IN  /\ m[k - 1].role = "assistant"
        /\ Len(invocations) >= 1
        /\ Len(results) = Len(invocations)
        /\ \A i \in DOMAIN results :
              /\ results[i].type = "tool_result"
              /\ results[i].tool_use_id = invocations[i].id

\* The tool-result turns of a transcript: its user turns after the seed.
ResultTurns(m) == {k \in 2..Len(m) : m[k].role = "user"}

\* The ids of a transcript's results, or of its invocations, turn by turn.
RECURSIVE ResultIds(_, _)
ResultIds(m, k) ==
    IF k = 0 THEN <<>>
    ELSE ResultIds(m, k - 1)
         \o (IF k \in ResultTurns(m)
             THEN [i \in DOMAIN m[k].content.items |-> m[k].content.items[i].tool_use_id]
             ELSE <<>>)

RECURSIVE InvocationIds(_, _)
InvocationIds(m, k) ==
    IF k = 0 THEN <<>>
    ELSE InvocationIds(m, k - 1)
         \o [i \in DOMAIN InvocationsOf(m[k]) |-> InvocationsOf(m[k])[i].id]

Distinct(q) == \A i, j \in DOMAIN q : i # j => q[i] # q[j]

\* ------------------------------------------------------------- claims

\* C1: in every reachable state of a session the iteration counter stays
\* within 0 .. maxIterations, whatever the endpoint and the executor do.
C1_IterationsWithinBudget ==
    /\ 0 <= iterations
    /\ iterations <= config.maxIterations

\* C1 witness: the last iteration of the largest budget, its call in flight.
C1_Witness ==
    /\ config.maxIterations = MaxBudget
    /\ iterations = config.maxIterations
    /\ pc = "await_fetch"

\* C2 (as stated): every tool-result turn answers the assistant turn before
\* it, one result per invocation, same order, same ids, and the ids of all
\* results of the session are pairwise distinct (each one distinct in its
\* round and unseen in earlier rounds).
C2_Original ==
    /\ \A k \in ResultTurns(messages) : Answers(messages, k)
    /\ Distinct(ResultIds(messages, Len(messages)))

\* C2 (amended): every tool-result turn answers the assistant turn before it,
\* one result per invocation, same order, the i-th result with the id of the
\* i-th invocation, whether the action succeeded, failed or was unsupported;
\* the result ids are pairwise distinct whenever the endpoint's invocation
\* ids are.
C2_ResultsAnswerInvocations ==
    /\ \A k \in ResultTurns(messages) : Answers(messages, k)
    /\ Distinct(InvocationIds(messages, Len(messages)))
          => Distinct(ResultIds(messages, Len(messages)))

\* C2 witness: a round of two invocations with different ids was answered,
\* the click having failed and the other action being unsupported.
C2_Witness ==
    \E k \in ResultTurns(messages) :
        LET results == messages[k].content.items
        IN  /\ Len(results) = 2
            /\ results[1].tool_use_id = "toolu_1"
            /\ results[1].content = JStr("Error: permission denied")
            /\ results[2].tool_use_id = "toolu_2"
            /\ results[2].content = JStr("Unsupported action: fly")

\* The transcript m is fully answered: every assistant turn holds at least
\* one invocation and is followed by the tool-result turn that answers it.
FullyAnswered(m) ==
    \A k \in DOMAIN m :
        m[k].role = "assistant" =>
            /\ k < Len(m)
            /\ m[k + 1].role = "user"
            /\ m[k + 1].content.json = "array"
            /\ Answers(m, k + 1)

\* C3: whenever the loop calls the endpoint, every invocation of every
\* assistant turn of the transcript it sends has its one result in the user
\* turn that follows; no call is made while an invocation is unanswered.
C3_AnsweredBeforeNextCall ==
    \A i \in Entries("fetch") : FullyAnswered(trace[i].body.messages)

\* C3 witness: a second call was made after a round of two invocations.
C3_Witness ==
    \E i \in Entries("fetch") :
        /\ Len(trace[i].body.messages) = 3
        /\ Len(InvocationsOf(trace[i].body.messages[2])) = 2

\* C4: the transcript is append-only: across every step the old transcript
\* is a prefix of the new one.
C4_TranscriptAppendOnly == [][IsPrefix(messages, messages')]_vars

\* C4 witness: a session that appended two full rounds and ended.
C4_Witness ==
    /\ Len(messages) = 5
    /\ pc = "done"

\* A reply that asks for more: well formed, at least one invocation, a stop
\* reason other than end_turn.
RequestsMore(response) ==
    /\ response.kind = "http"
    /\ response.ok
    /\ response.parses
    /\ response.data.content.json = "array"
    /\ \E i \in DOMAIN response.data.content.items :
          IsToolUse(response.data.content.items[i])
    /\ \A i \in DOMAIN response.data.content.items :
          IsToolUse(response.data.content.items[i])
              => Has(response.data.content.items[i], "input")
    /\ response.data.stop_reason # "end_turn"

\* C5: with maxIterations = M >= 1 and an endpoint whose every reply asks for
\* more, the endpoint is called at most M times, no complete event is
\* emitted, and the session ends after exactly M calls with iterations = M
\* and the single error event "Reached maximum iterations (M)".
C5_BudgetExceededAfterM ==
    (config.maxIterations >= 1 /\ \A r \in ResponsesSoFar : RequestsMore(r)) =>
        /\ Count("fetch") <= config.maxIterations
        /\ EventsOfType("complete") = {}
        /\ Terminated =>
              /\ Count("fetch") = config.maxIterations
              /\ iterations = config.maxIterations
              /\ LastEvent = BudgetEvent
              /\ Cardinality(EventsOfType("error")) = 1

\* C5 witness: the largest budget used up by replies that all ask for more.
C5_Witness ==
    /\ config.maxIterations = MaxBudget
    /\ \A r \in ResponsesSoFar : RequestsMore(r)
    /\ \E r \in ResponsesSoFar : r.data.stop_reason = "max_tokens"
    /\ pc = "done"
    /\ LastEvent = BudgetEvent

\* A well-formed reply without any tool_use block.
ZeroToolReply(response) ==
    /\ response.kind = "http"
    /\ response.ok
    /\ response.parses
    /\ response.data.content.json = "array"
    /\ \A i \in DOMAIN response.data.content.items :
          ~IsToolUse(response.data.content.items[i])

\* C6: after a successful reply without tool invocations the session only
\* narrates that reply and completes, in the same iteration: the transcript
\* is the one sent plus the assistant turn (no tool-result turn), nothing is
\* dispatched, the endpoint is not called again, and the session ends with
\* the one complete event.
C6_ZeroToolsCompletes ==
    \A i \in Entries("fetch_return") :
        ZeroToolReply(trace[i].response) =>
            /\ \A j \in (i + 1)..Len(trace) :
                  /\ trace[j].kind = "yield"
                  /\ trace[j].event.type \in {"text", "thinking", "complete"}
            /\ messages = Append(trace[i - 1].body.messages,
                                 [role |-> "assistant",
                                  content |-> trace[i].response.data.content])
            /\ iterations = Count("fetch")
            /\ pc \in {"y_text", "y_complete", "done", "cancelled"}
            /\ pc \in {"y_complete", "done"} =>
                  /\ LastEvent = CompleteEvent
                  /\ Cardinality(EventsOfType("complete")) = 1
                  /\ EventsOfType("error") = {}

\* C6 witness: the first reply of a budget of two narrates, holds no tool
\* use and carries the stop reason tool_use; the session is over.
C6_Witness ==
    /\ config.maxIterations = 2
    /\ iterations = 1
    /\ pc = "done"
    /\ \E r \in ResponsesSoFar :
          /\ ZeroToolReply(r)
          /\ Len(r.data.content.items) = 2
          /\ r.data.stop_reason = "tool_use"

\* The step in which an invoke of the Action Executor comes back failed.
FailedInvokeStep ==
    /\ pc = "await_action"
    /\ pending.call # <<>>
    /\ Len(trace') > Len(trace)
    /\ trace'[Len(trace) + 1] = [kind |-> "invoke_return", ok |-> FALSE]

\* What the loop does in that step: the invocation gets an error result
\* with its id and a readable message; then the next invocation of the round
\* is started, or, after the last one, the tool-result turn is appended and
\* the loop goes on as after a success: complete on end_turn, else the next
\* iteration, else the budget error.  The only other way out is a next
\* invocation that lacks its input.
FailureIsRecoverable ==
    LET toolUses == ToolUses(data)
        result == toolResults'[Len(toolResults')]
        emitted == trace'[Len(trace')].event
    IN  /\ Len(toolResults') = tuIdx
        /\ result.tool_use_id = toolUses[tuIdx].id
        /\ IsError(result)
        /\ result.content = JStr("Error: permission denied")
        /\ trace'[Len(trace')].kind = "yield"
        /\ IF tuIdx < Len(toolUses)
           THEN /\ messages' = messages
                /\ IF Has(toolUses[tuIdx + 1], "input")
                   THEN /\ emitted = ExecutingEvent(toolUses[tuIdx + 1].input)
                        /\ tuIdx' = tuIdx + 1
                        /\ pc' \in {"y_action", "cancelled"}
                   ELSE pc' \in {"y_catch", "cancelled"}
           ELSE /\ messages' = Append(messages, [role |-> "user",
                                                 content |-> JArr(toolResults')])
                /\ IF data.stop_reason = "end_turn"
                   THEN emitted = CompleteEvent
                   ELSE IF iterations < config.maxIterations
                   THEN /\ emitted = IterationEvent(iterations + 1)
                        /\ iterations' = iterations + 1
                        /\ pc' \in {"y_iteration", "cancelled"}
                   ELSE emitted = BudgetEvent

\* C7: a failure of the Action Executor in one invocation is not terminal:
\* it becomes that invocation's result with is_error and a readable message,
\* the rest of the round is executed, the tool-result turn is appended and
\* the session goes on to the next endpoint call.
C7_ActionFailureRecoverable == [][FailedInvokeStep => FailureIsRecoverable]_vars

\* C7 witness: a click failed, a later invocation of the round was
\* dispatched all the same, and the endpoint was then called again.
C7_Witness ==
    \E i \in Entries("invoke_return"), j \in Entries("dispatch"), k \in Entries("fetch") :
        /\ ~trace[i].ok
        /\ i < j
        /\ j < k
        /\ IsError(messages[3].content.items[1])

\* C8: after a response that is not ok the session ends with the one error
\* event that carries status and body; nothing else happens after the
\* response (no retry, no dispatch) and the transcript is the one sent.
C8_NonOkIsTerminal ==
    \A i \in Entries("fetch_return") :
        (trace[i].response.kind = "http" /\ ~trace[i].response.ok) =>
            /\ Len(trace) = i + 1
            /\ trace[i + 1] = [kind |-> "yield",
                               event |-> [type |-> "error",
                                          content |-> "API Error: 529 - overloaded"]]
            /\ Cardinality(EventsOfType("error")) = 1
            /\ messages = trace[i - 1].body.messages
            /\ pc \in {"y_api_error", "done", "cancelled"}

\* C8 witness: the second call of a session that had dispatched actions in
\* its first round came back not ok, and the session is over.
C8_Witness ==
    /\ pc = "done"
    /\ iterations = 2
    /\ Count("invoke") >= 1
    /\ trace[Len(trace) - 1].kind = "fetch_return"
    /\ trace[Len(trace) - 1].response.kind = "http"
    /\ ~trace[Len(trace) - 1].response.ok

\* Calls that were started and have not come back.
FetchInFlight == Count("fetch") - Count("fetch_return")
DispatchInFlight == Count("dispatch") - Count("dispatch_return")
InvokeInFlight == Count("invoke") - Count("invoke_return")

\* The dispatches of the current round: those started since the last reply.
RoundDispatches ==
    LET replies == Entries("fetch_return")
        last == CHOOSE i \in replies : \A k \in replies : k <= i
    IN  IF replies = {} THEN <<>>
        ELSE SelectSeq(SubSeq(trace, last + 1, Len(trace)),
                       LAMBDA e : e.kind = "dispatch")

\* C9: at most one operation of a session is in flight, be it an endpoint
\* call or a dispatch (so each dispatch starts only after the one before it
\* has come back), and the dispatches of a round are the invocations of its
\* reply, in reply order.
C9_OneOperationInFlight ==
    /\ FetchInFlight \in {0, 1}
    /\ DispatchInFlight \in {0, 1}
    /\ InvokeInFlight \in {0, 1}
    /\ InvokeInFlight <= DispatchInFlight
    /\ FetchInFlight + DispatchInFlight <= 1
    /\ \A n \in DOMAIN RoundDispatches :
          /\ RoundDispatches[n].action = ActionOf(ToolUses(data)[n].input)
          /\ RoundDispatches[n].params = ParamsOf(ToolUses(data)[n])

\* C9 witness: the second invocation of a round is with the Action Executor,
\* the first one having come back.
C9_Witness ==
    /\ pc = "await_action"
    /\ tuIdx = 2
    /\ InvokeInFlight = 1
    /\ Len(toolResults) = 1

\* The transcript ends with an assistant turn whose invocations have no
\* tool-result turn.
PartialRound == Len(InvocationsOf(messages[Len(messages)])) >= 1

\* C10: once the generator is ended by the consumer's return(), the
\* transcript holds no partial round.
C10_NoPartialRoundOnCancel == pc = "cancelled" => ~PartialRound

\* A well-formed reply that holds tool invocations and stops with end_turn.
EndTurnWithTools(response) ==
    /\ response.kind = "http"
    /\ response.ok
    /\ response.parses
    /\ response.data.content.json = "array"
    /\ \E i \in DOMAIN response.data.content.items :
          IsToolUse(response.data.content.items[i])
    /\ \A i \in DOMAIN response.data.content.items :
          IsToolUse(response.data.content.items[i])
              => Has(response.data.content.items[i], "input")
    /\ response.data.stop_reason = "end_turn"

\* The entries of the trace after index i that are of the given kind.
EntriesAfter(i, kind) == {j \in (i + 1)..Len(trace) : trace[j].kind = kind}

\* C11: a reply with tool invocations and stop reason end_turn still has
\* every invocation dispatched and the tool-result turn appended, then the
\* session completes at once: the endpoint is not called again (the results
\* are never sent) and no error event is emitted, also when the iteration is
\* the last one of the budget (complete, not the budget error).
C11_EndTurnRunsToolsThenCompletes ==
    \A i \in Entries("fetch_return") :
        EndTurnWithTools(trace[i].response) =>
            LET sent == trace[i - 1].body.messages
                reply == trace[i].response.data
            IN  /\ EntriesAfter(i, "fetch") = {}
                /\ \A j \in EntriesAfter(i, "yield") : trace[j].event.type # "error"
                /\ iterations = Count("fetch")
                /\ pc \in {"y_text", "y_action", "await_action", "cancelled",
                           "y_complete", "done"}
                /\ Terminated =>
                      /\ LastEvent = CompleteEvent
                      /\ Cardinality(EventsOfType("complete")) = 1
                      /\ Cardinality(EntriesAfter(i, "dispatch")) = Len(ToolUses(reply))
                      /\ Cardinality(EntriesAfter(i, "dispatch_return")) = Len(ToolUses(reply))
                      /\ Len(messages) = Len(sent) + 2
                      /\ IsPrefix(sent, messages)
                      /\ messages[Len(sent) + 1] =
                            [role |-> "assistant", content |-> reply.content]
                      /\ messages[Len(messages)].role = "user"
                      /\ Answers(messages, Len(messages))

\* C11 witness: the last iteration of the largest budget got a reply with two
\* invocations and end_turn; both were executed and the session completed.
C11_Witness ==
    /\ config.maxIterations = MaxBudget
    /\ iterations = config.maxIterations
    /\ pc = "done"
    /\ EndTurnWithTools(trace[CHOOSE i \in Entries("fetch_return") :
                                 \A j \in Entries("fetch_return") : j <= i].response)
    /\ Len(messages[Len(messages)].content.items) = 2
    /\ LastEvent = CompleteEvent

\* The Iteration progress events of the session, in order.
IterationEvents ==
    SelectSeq(Events, LAMBDA e : e.type = "action" /\ Has(e.data, "iteration"))

\* The rank of the endpoint call at index i among the calls of the session.
CallNumber(i) == Cardinality({j \in Entries("fetch") : j <= i})

\* C12: the Iteration events of a session carry 1, 2, 3, ... ("Iteration
\* k/max" is the k-th of them), none exceeds maxIterations, and each
\* endpoint call comes right after the Iteration event of its own number:
\* one Iteration event per call, before the call.
C12_IterationEventsCountCalls ==
    /\ \A k \in DOMAIN IterationEvents :
          /\ IterationEvents[k].data.iteration = k
          /\ IterationEvents[k].content =
                "Iteration " \o ToString(k) \o "/" \o ToString(config.maxIterations)
          /\ k <= config.maxIterations
    /\ \A i \in Entries("fetch") :
          /\ i > 1
          /\ trace[i - 1].kind = "yield"
          /\ trace[i - 1].event = IterationEvents[CallNumber(i)]
    /\ Len(IterationEvents) = iterations
    /\ Len(IterationEvents) = Count("fetch") + (IF pc = "y_iteration" THEN 1 ELSE 0)
          \/ (pc = "cancelled" /\ Len(IterationEvents) = Count("fetch") + 1)

\* C12 witness: two endpoint calls were made, after the events "Iteration
\* 1/2" and "Iteration 2/2".
C12_Witness ==
    /\ Count("fetch") = 2
    /\ Len(IterationEvents) = 2
    /\ IterationEvents[2].content = "Iteration 2/2"
    /\ pc = "await_fetch"

\* The index in the trace of the dispatch in flight.
LastDispatch == CHOOSE i \in Entries("dispatch") : \A j \in Entries("dispatch") : j <= i

\* A supplied observer was called once for the dispatch in flight, with its
\* action and parameters, before any call of the executor.
ObserverCalledOnce ==
    LET d == LastDispatch
    IN  IF onActionExecuted = "none"
        THEN EntriesAfter(d, "observer") = {}
        ELSE /\ EntriesAfter(d, "observer") = {d + 1}
             /\ trace[d + 1].action = trace[d].action
             /\ trace[d + 1].params = trace[d].params
             /\ \A j \in EntriesAfter(d, "invoke") : j > d + 1

\* The dispatch in flight does what it does when no observer is supplied:
\* the same call of the executor, or the same result without a call.
OutcomeAsWithoutObserver ==
    LET d == LastDispatch
        bare == ExecStart(trace[d].action, trace[d].params, "none")
    IN  /\ pending.call = bare.call
        /\ pending.settled = bare.settled

\* C13: a supplied observer is called exactly once per dispatched invocation,
\* before the executor call, with the invocation's action and parameters,
\* and whatever it does (raising included) the executor call made and the
\* tool result produced are those of a dispatch without observer.
C13_ObserverLeavesOutcomeAlone ==
    pc = "await_action" =>
        /\ ObserverCalledOnce
        /\ OutcomeAsWithoutObserver

\* C14: dispatch is total.  For every action name and parameter record, and
\* whatever the executor does, executeComputerAction returns a tool result
\* for the invocation and nothing is raised to the loop (no "Error: ..."
\* event, the loop goes on to its stop-reason test); a failure of the
\* executor becomes a tool result with is_error = true.
C14_DispatchIsTotal ==
    /\ pc # "y_catch"
    /\ EventsOfType("error") \subseteq {i \in DOMAIN Events : Events[i] = BudgetEvent}
    /\ \A i \in Entries("dispatch_return") :
          /\ trace[i].result.type = "tool_result"
          /\ trace[i].result.tool_use_id = "toolu_1"
          /\ Has(trace[i].result, "content")
    /\ \A i \in Entries("invoke_return") :
          /\ trace[i + 1].kind = "dispatch_return"
          /\ ~trace[i].ok => IsError(trace[i + 1].result)
    /\ Count("dispatch_return") =
          Count("dispatch") - (IF pc = "await_action" THEN 1 ELSE 0)
    /\ toolResults = [i \in 1..Count("dispatch_return") |->
                         trace[CHOOSE j \in Entries("dispatch_return") : TRUE].result]

\* C14 witness: the executor refused a drag and the dispatch returned the
\* flagged result to the loop, which went on to its next iteration.
C14_Witness ==
    /\ \E i \in Entries("invoke") : trace[i].call.cmd = "computer_mouse_drag"
    /\ \E i \in Entries("invoke_return") : ~trace[i].ok
    /\ toolResults = <<[type |-> "tool_result", tool_use_id |-> "toolu_1",
                        content |-> JStr("Error: permission denied"),
                        is_error |-> TRUE]>>
    /\ pc = "y_iteration"
    /\ iterations = 2

\* The dispatch that the dispatch_return at index r answers.
DispatchOf(r) == CHOOSE d \in Entries("dispatch") :
                    d < r /\ \A e \in Entries("dispatch") : e < r => e <= d

\* What follows the return of a dispatch when nothing was raised to the loop:
\* the next Executing event, the next Iteration event, complete, the budget
\* error, or the error of a next tool_use block that lacks its input.
LoopWentOn(r) ==
    /\ r < Len(trace)
    /\ trace[r + 1].kind = "yield"
    /\ \/ trace[r + 1].event.type \in {"action", "complete"}
       \/ trace[r + 1].event = BudgetEvent
       \/ trace[r + 1].event =
             CatchEvent("Cannot read properties of undefined (reading 'action')")

\* C15: an invocation whose action is not one of the ten supported ones gets
\* the tool result with is_error = true and the message "Unsupported action:
\* <name>"; no executor call is made for it, nothing is raised and the loop
\* goes on.
C15_UnsupportedActionIsFlagged ==
    \A r \in Entries("dispatch_return") :
        LET d == DispatchOf(r)
        IN  trace[d].action \notin SupportedActions =>
                /\ trace[r].result =
                      [type |-> "tool_result",
                       tool_use_id |-> trace[d].params.tool_use_id,
                       content |-> JStr("Unsupported action: " \o trace[d].action),
                       is_error |-> TRUE]
                /\ \A j \in d..r : trace[j].kind # "invoke"
                /\ LoopWentOn(r)

\* The body of an ok response does not parse, or its content is no list.
Unreadable(response) ==
    /\ response.kind = "http"
    /\ response.ok
    /\ ~response.parses \/ response.data.content.json # "array"

\* A parsed reply that holds a tool_use block without its input record.
LacksInput(response) ==
    /\ response.kind = "http"
    /\ response.ok
    /\ response.parses
    /\ response.data.content.json = "array"
    /\ \E k \in DOMAIN response.data.content.items :
          /\ IsToolUse(response.data.content.items[k])
          /\ ~Has(response.data.content.items[k], "input")

\* The rank among the tool_use blocks of a reply of the first one that has
\* no input record.
FirstWithoutInput(d) ==
    CHOOSE k \in DOMAIN ToolUses(d) :
        /\ ~Has(ToolUses(d)[k], "input")
        /\ \A j \in 1..(k - 1) : Has(ToolUses(d)[j], "input")

\* The error event the catch clause of the loop emits for a malformed reply.
ProtocolErrorOf(response) ==
    [type |-> "error",
     content |-> IF ~response.parses THEN "Error: " \o response.message
                 ELSE IF response.data.content.json # "array"
                 THEN "Error: data.content is not iterable"
                 ELSE "Error: Cannot read properties of undefined (reading 'action')"]

\* C16: a malformed reply (unparseable body, content that is no list of
\* blocks, tool_use block without input) ends the session with a protocol
\* error: the one error event "Error: ..." is emitted and is the last thing
\* the session does - no endpoint call after the reply, no executor call
\* after the failure, no complete event.  An unreadable reply fails at once;
\* a block without input fails when its turn comes, after the narration and
\* the invocations before it.
C16_MalformedReplyIsTerminal ==
    \A i \in Entries("fetch_return") :
        LET response == trace[i].response
            errors == {j \in EntriesAfter(i, "yield") : trace[j].event.type = "error"}
        IN  (Unreadable(response) \/ LacksInput(response)) =>
                /\ EntriesAfter(i, "fetch") = {}
                /\ EventsOfType("complete") = {}
                /\ \A j \in errors :
                      /\ j = Len(trace)
                      /\ trace[j].event = ProtocolErrorOf(response)
                /\ (errors # {}) = (pc \in {"y_catch", "done"}
                                    \/ (pc = "cancelled" /\ trace[Len(trace)].kind = "yield"
                                        /\ trace[Len(trace)].event.type = "error"))
                /\ pc \in {"y_text", "y_action", "await_action", "y_catch", "done",
                           "cancelled"}
                /\ Unreadable(response) =>
                      /\ Len(trace) = i + 1
                      /\ errors = {i + 1}
                /\ LacksInput(response) =>
                      Cardinality(EntriesAfter(i, "dispatch"))
                          < FirstWithoutInput(response.data)
                /\ Terminated =>
                      /\ LastEvent = ProtocolErrorOf(response)
                      /\ Cardinality(EventsOfType("error")) = 1

\* C16 witness: the reply asked for a click and then held a tool_use block
\* without input; the click was executed, then the session ended with the
\* error event.
C16_Witness ==
    /\ pc = "done"
    /\ \E i \in Entries("fetch_return") :
          /\ LacksInput(trace[i].response)
          /\ Cardinality(EntriesAfter(i, "invoke")) = 1
    /\ LastEvent = CatchEvent("Cannot read properties of undefined (reading 'action')")

\* The terminal events the consumer received: complete and error events.
TerminalEvents == EventsOfType("complete") \cup EventsOfType("error")

\* At most one terminal event was emitted, it is the last event and the last
\* thing the session did, and a session that ended without being cancelled
\* has emitted it.
EndsWithOneTerminalEvent ==
    /\ TerminalEvents \subseteq {Len(Events)}
    /\ TerminalEvents # {} =>
          /\ trace[Len(trace)].kind = "yield"
          /\ pc \in TerminalYields \cup {"done", "cancelled"}
    /\ Terminated => TerminalEvents = {Len(Events)}

\* After the terminal event the session only completes: no endpoint call, no
\* executor call, no event, no change of the transcript or of the counter.
TerminalIsAbsorbing ==
    Terminated =>
        /\ pc' = "done"
        /\ trace' = trace
        /\ messages' = messages
        /\ iterations' = iterations
        /\ toolResults' = toolResults

\* C17: a session that is not cancelled ends its events with exactly one
\* terminal event (complete or error), which is its last event; after it the
\* session calls neither the endpoint nor the executor and leaves the
\* transcript alone: terminal states are absorbing.
C17_OneTerminalEventThenNothing ==
    [][EndsWithOneTerminalEvent' /\ TerminalIsAbsorbing]_vars

\* C17 witness: a session that ran a round of tools, completed on the next
\* reply and was then left alone by the consumer.
C17_Witness ==
    /\ pc = "done"
    /\ Len(messages) = 4
    /\ LastEvent = CompleteEvent
    /\ TerminalEvents = {Len(Events)}
    /\ Count("invoke") >= 1

\* C18: when every endpoint call and every executor call comes back and the
\* consumer keeps pulling, every session that is not ended by return()
\* eventually reaches a terminal outcome (complete, budget error, API error
\* or "Error: ..."), and it never makes more than maxIterations endpoint
\* calls.
C18_EventuallyTerminal ==
    /\ [](pc # "cancelled") => <>Terminated
    /\ [](Count("fetch") <= config.maxIterations)

\* C18 witness: a session that used its whole budget of endpoint calls, ran
\* the tools of each reply and then reached the budget error.
C18_Witness ==
    /\ config.maxIterations = MaxBudget
    /\ Count("fetch") = MaxBudget
    /\ Count("invoke_return") >= MaxBudget
    /\ pc = "y_budget"

\* The transcript that the first n entries of one session's own trace
\* account for: its seed, an assistant turn for each reply it received, and
\* a tool-result turn for each round whose dispatches all returned to it.
RECURSIVE Replay(_, _, _)
Replay(tr, n, seed) ==
    IF n = 0
    THEN [messages |-> <<[role |-> "user", content |-> JStr(seed)]>>,
          results |-> <<>>, need |-> 0]
    ELSE LET before == Replay(tr, n - 1, seed)
             e == tr[n]
         IN  IF e.kind = "fetch_return"
             THEN [messages |-> Append(before.messages,
                                       [role |-> "assistant",
                                        content |-> e.response.data.content]),
                   results |-> <<>>,
                   need |-> Len(ToolUses(e.response.data))]
             ELSE IF e.kind = "dispatch_return"
             THEN LET results == Append(before.results, e.result)
                  IN  [messages |-> IF Len(results) = before.need
                                    THEN Append(before.messages,
                                                [role |-> "user",
                                                 content |-> JArr(results)])
                                    ELSE before.messages,
                       results |-> results,
                       need |-> before.need]
             ELSE before

\* The Iteration events in one session's own trace.
IterationsIn(tr) ==
    Cardinality({i \in DOMAIN tr : /\ tr[i].kind = "yield"
                                   /\ tr[i].event.type = "action"
                                   /\ Has(tr[i].event.data, "iteration")})

\* C19: two concurrent sessions never share a transcript or a counter.  In
\* every interleaving the transcript of each session is exactly what its own
\* seed, its own replies and its own tool results account for, and its
\* counter is the number of its own iterations.
C19_SessionsShareNothing ==
    \A k \in Sessions :
        /\ messages[k] = Replay(trace[k], Len(trace[k]), TwoSeeds[k]).messages
        /\ iterations[k] = IterationsIn(trace[k])
        /\ \A t \in ResultTurns(messages[k]) :
              \A i \in DOMAIN messages[k][t].content.items :
                  messages[k][t].content.items[i].tool_use_id = "toolu_" \o ToString(k)

\* C19 witness: the first session is in its second iteration with a full
\* round in its transcript while the second has only received its reply.
C19_Witness ==
    /\ iterations[1] = 2
    /\ Len(messages[1]) = 3
    /\ iterations[2] = 1
    /\ Len(messages[2]) = 2
    /\ pc[2] = "y_action"

\* C20: dispatch is not serialized across sessions.  A session suspended at
\* an Executing yield can dispatch whatever the other session is doing, also
\* while a call of the other session is running in the Action Executor: no
\* global queue or lock stands in front of the executor.
C20_NoLockAcrossSessions ==
    \A k \in Sessions : pc[k] = "y_action" => ENABLED TwoDispatch(k)

\* C20 witness: executor calls of both sessions are in flight at once.
C20_Witness ==
    /\ pc[1] = "await_action"
    /\ pc[2] = "await_action"
    /\ pending[1].call # <<>>
    /\ pending[2].call # <<>>
    /\ trace[1][Len(trace[1])].kind = "invoke"
    /\ trace[2][Len(trace[2])].kind = "invoke"

\* C21: the executor call of a scroll invocation with scroll_amount n gets
\* the vertical delta +n when scroll_direction is "down" and -n when it is
\* "up", and the horizontal delta 0 in both cases.
C21_ScrollDelta ==
    \A i \in Entries("dispatch") :
        trace[i].action = "scroll" =>
            \A j \in EntriesAfter(i, "invoke") :
                /\ trace[j].call.cmd = "computer_mouse_scroll"
                /\ trace[j].call.args.scrollX = 0
                /\ trace[i].params.scroll_direction = "down" =>
                      trace[j].call.args.scrollY = trace[i].params.scroll_amount
                /\ trace[i].params.scroll_direction = "up" =>
                      trace[j].call.args.scrollY = 0 - trace[i].params.scroll_amount

\* C21 witness: scroll up by 5 reached the executor with vertical delta -5.
C21_Witness ==
    \E i \in Entries("dispatch") :
        /\ trace[i].action = "scroll"
        /\ trace[i].params.scroll_direction = "up"
        /\ trace[i].params.scroll_amount = 5
        /\ \E j \in EntriesAfter(i, "invoke") :
              /\ trace[j].call.args.scrollY = -5
              /\ trace[j].call.args.scrollX = 0

\* A successful reply whose body parses to a list of blocks.
ListReply(response) ==
    /\ response.kind = "http"
    /\ response.ok
    /\ response.parses
    /\ response.data.content.json = "array"

\* C22: once a successful reply with a list of blocks has come back, and so
\* before the consumer sees any event of that reply and before any of its
\* invocations is dispatched, the transcript holds the reply's content
\* verbatim as the one assistant turn right after the transcript that was
\* sent; and every tool-result turn has right before it the assistant turn
\* whose invocations it answers.
C22_ReplyAppendedVerbatimFirst ==
    /\ \A i \in Entries("fetch_return") :
          ListReply(trace[i].response) =>
              LET sent == trace[i - 1].body.messages
              IN  /\ Len(messages) > Len(sent)
                  /\ IsPrefix(sent, messages)
                  /\ messages[Len(sent) + 1] =
                        [role |-> "assistant", content |-> trace[i].response.data.content]
                  /\ \A j \in EntriesAfter(i, "fetch") :
                        trace[j].body.messages[Len(sent) + 1] = messages[Len(sent) + 1]
    /\ \A k \in ResultTurns(messages) :
          /\ messages[k - 1].role = "assistant"
          /\ Answers(messages, k)

\* C22 witness: the consumer holds the Text event of a reply made of a text
\* block and an invocation; nothing of the reply was dispatched yet.
C22_Witness ==
    /\ pc = "y_text"
    /\ Len(messages) = 2
    /\ Len(messages[2].content.items) = 2
    /\ messages[2].content.items[1].type = "text"
    /\ messages[2].content.items[2].type = "tool_use"
    /\ Count("dispatch") = 0

\* The endpoint calls of the session, in order, as indexes of the trace.
CallAt(k) == CHOOSE i \in Entries("fetch") : CallNumber(i) = k

\* C23: every endpoint call carries the whole transcript.  The first call
\* carries the seed turn alone; the call after carries what the call before
\* carried plus two turns, the assistant reply to that call and the
\* tool-result turn of its round; the call in flight carries the current
\* transcript; and the tool schema (display geometry) is the same on every
\* call.
C23_CallsReplayTranscript ==
    /\ \A i \in Entries("fetch") :
          /\ trace[i].body.tools =
                <<[type |-> "computer_20250124", name |-> "computer",
                   display_width_px |-> config.displayWidth,
                   display_height_px |-> config.displayHeight,
                   display_number |-> 1]>>
          /\ IsPrefix(trace[i].body.messages, messages)
          /\ CallNumber(i) = 1 =>
                trace[i].body.messages = <<[role |-> "user", content |-> JStr(UserMessage)]>>
    /\ \A k \in 1..(Count("fetch") - 1) :
          LET before == trace[CallAt(k)].body.messages
              after == trace[CallAt(k + 1)].body.messages
              reply == trace[CallAt(k) + 1].response.data
          IN  /\ Len(after) = Len(before) + 2
              /\ IsPrefix(before, after)
              /\ after[Len(before) + 1] = [role |-> "assistant", content |-> reply.content]
              /\ after[Len(after)].role = "user"
              /\ Answers(after, Len(after))
    /\ pc = "await_fetch" =>
          trace[Len(trace)].body.messages = messages

\* C23 witness: the second call of a session is in flight and carries three
\* turns.
C23_Witness ==
    /\ pc = "await_fetch"
    /\ Count("fetch") = 2
    /\ Len(trace[Len(trace)].body.messages) = 3
    /\ trace[Len(trace)].body.messages[3].role = "user"
    /\ trace[Len(trace)].body.messages[3].content.json = "array"

\* C24: in every reachable state the transcript starts with the seed user
\* turn and its roles alternate user, assistant, user, ...; the endpoint call
\* of iteration k carries exactly 2k-1 turns, the last of them a user turn,
\* and that is the whole transcript while the call is in flight.
C24_RolesAlternate ==
    /\ messages[1] = [role |-> "user", content |-> JStr(UserMessage)]
    /\ \A i \in DOMAIN messages :
          messages[i].role = IF i % 2 = 1 THEN "user" ELSE "assistant"
    /\ \A i \in Entries("fetch") :
          /\ Len(trace[i].body.messages) = 2 * CallNumber(i) - 1
          /\ trace[i].body.messages[Len(trace[i].body.messages)].role = "user"
    /\ pc = "await_fetch" =>
          /\ Len(messages) = 2 * iterations - 1
          /\ messages[Len(messages)].role = "user"

\* C24 witness: the call of iteration 2 is in flight with a transcript of
\* three turns, a tool-result turn last.
C24_Witness ==
    /\ pc = "await_fetch"
    /\ iterations = 2
    /\ Len(messages) = 3
    /\ messages[2].role = "assistant"
    /\ messages[3].role = "user"
    /\ Len(messages[3].content.items) = 1

\* The last reply that came back, as an index of the trace.
LastReply == CHOOSE i \in Entries("fetch_return") : \A j \in Entries("fetch_return") : j <= i

\* A reply that is a list of blocks whose invocations all carry their input.
WellFormed(response) ==
    /\ ListReply(response)
    /\ \A k \in DOMAIN response.data.content.items :
          IsToolUse(response.data.content.items[k])
              => Has(response.data.content.items[k], "input")

\* The entries of a round that the ordering is about: Text, Thinking and
\* Executing events, dispatches and their returns.
InRoundOrder(e) ==
    \/ e.kind \in {"dispatch", "dispatch_return"}
    \/ /\ e.kind = "yield"
       /\ \/ e.event.type \in {"text", "thinking"}
          \/ e.event.type = "action" /\ Has(e.event.data, "action")

RoundTag(e) ==
    IF e.kind = "yield" THEN [tag |-> "event", event |-> e.event]
    ELSE IF e.kind = "dispatch"
    THEN [tag |-> "dispatch", action |-> e.action, params |-> e.params]
    ELSE [tag |-> "return"]

\* What the round of reply d does, in order, when it runs to its end: one
\* Text or Thinking event per narration block in the order of the reply, then
\* for each invocation in order its Executing event, its dispatch and the
\* return of its dispatch.
ExpectedRound(d) ==
    LET narration == SelectSeq(d.content.items,
                               LAMBDA b : b.type \in {"text", "thinking"})
        uses == ToolUses(d)
    IN  [k \in DOMAIN narration |-> [tag |-> "event", event |->
             [type |-> narration[k].type,
              content |-> IF narration[k].type = "text"
                          THEN narration[k].text ELSE narration[k].thinking]]]
        \o [n \in 1..(3 * Len(uses)) |->
               LET use == uses[(n + 2) \div 3]
               IN  CASE n % 3 = 1 ->
                          [tag |-> "event", event |->
                              [type |-> "action",
                               content |-> "Executing: " \o ActionOf(use.input),
                               data |-> [action |-> ActionOf(use.input),
                                         params |-> use.input]]]
                     [] n % 3 = 2 ->
                          [tag |-> "dispatch", action |-> ActionOf(use.input),
                           params |-> ParamsOf(use)]
                     [] OTHER -> [tag |-> "return"]]

\* What the round of the last reply did so far, in order.
ActualRound ==
    LET tail == SubSeq(trace, LastReply + 1, Len(trace))
        kept == SelectSeq(tail, InRoundOrder)
    IN  [k \in DOMAIN kept |-> RoundTag(kept[k])]

\* The round of the last reply is over: the loop went on to the next
\* Iteration event or to a terminal event.
RoundIsOver ==
    \E j \in EntriesAfter(LastReply, "yield") : ~InRoundOrder(trace[j])

\* C25: in a round the events come in order.  The Iteration event comes
\* first, before the endpoint call; then one Text or Thinking event per
\* narration block in reply order, all of them before the first dispatch;
\* then, invocation by invocation, the Executing event, the dispatch, and the
\* return of the dispatch before the Executing event of the next one.
C25_RoundIsOrdered ==
    (Entries("fetch_return") # {} /\ WellFormed(trace[LastReply].response)) =>
        /\ trace[LastReply - 1].kind = "fetch"
        /\ trace[LastReply - 2].kind = "yield"
        /\ Has(trace[LastReply - 2].event.data, "iteration")
        /\ IsPrefix(ActualRound, ExpectedRound(trace[LastReply].response.data))
        /\ RoundIsOver => ActualRound = ExpectedRound(trace[LastReply].response.data)
        /\ \A j \in EntriesAfter(LastReply, "yield") :
              ~InRoundOrder(trace[j]) =>
                  \A n \in (j + 1)..Len(trace) : ~InRoundOrder(trace[n])

\* C25 witness: a reply of a text block and an invocation ran to its end:
\* the Text event, then the Executing event, the dispatch and its return.
C25_Witness ==
    /\ Entries("fetch_return") # {}
    /\ WellFormed(trace[LastReply].response)
    /\ RoundIsOver
    /\ Len(ActualRound) = 4
    /\ ActualRound[1].event.type = "text"
    /\ ActualRound[2].event.type = "action"
    /\ ActualRound[3].tag = "dispatch"
    /\ ActualRound[4].tag = "return"

\* The entries between the reply at index i and the next endpoint call.
RoundAfter(i) ==
    LET later == EntriesAfter(i, "fetch")
        stop == IF later = {} THEN Len(trace) + 1
                ELSE CHOOSE j \in later : \A n \in later : j <= n
    IN  (i + 1)..(stop - 1)

\* C26: a reply with tool invocations whose stop reason is not end_turn,
\* received in an iteration k < maxIterations, makes the loop go on: once
\* the last dispatch of the round returned and the tool-result turn is
\* appended, the next event is "Iteration k+1/max" and what follows it is
\* the next endpoint call, with the transcript of the call before plus the
\* two turns of the round; no complete or error event comes in between.
C26_RoundContinues ==
    \A i \in Entries("fetch_return") :
        LET response == trace[i].response
            k == CallNumber(i - 1)
            sent == trace[i - 1].body.messages
            returns == {j \in RoundAfter(i) : trace[j].kind = "dispatch_return"}
        IN  (/\ RequestsMore(response)
             /\ k < config.maxIterations
             /\ Cardinality(returns) = Len(ToolUses(response.data))) =>
                LET r == CHOOSE j \in returns : \A n \in returns : n <= j
                IN  /\ r < Len(trace)
                    /\ trace[r + 1].kind = "yield"
                    /\ trace[r + 1].event.content =
                          "Iteration " \o ToString(k + 1) \o "/"
                              \o ToString(config.maxIterations)
                    /\ \A j \in (i + 1)..r :
                          trace[j].kind = "yield" =>
                              trace[j].event.type \notin {"complete", "error"}
                    /\ Len(messages) >= Len(sent) + 2
                    /\ messages[Len(sent) + 2].role = "user"
                    /\ iterations >= k + 1
                    /\ IF Len(trace) = r + 1
                       THEN pc \in {"y_iteration", "cancelled"} /\ iterations = k + 1
                       ELSE /\ trace[r + 2].kind = "fetch"
                            /\ Len(trace[r + 2].body.messages) = Len(sent) + 2

\* C26 witness: the first round of a budget of two ran its tool, the reply
\* having stopped with max_tokens; the second endpoint call is in flight.
C26_Witness ==
    /\ config.maxIterations = 2
    /\ pc = "await_fetch"
    /\ iterations = 2
    /\ \E i \in Entries("fetch_return") :
          /\ RequestsMore(trace[i].response)
          /\ trace[i].response.data.stop_reason = "max_tokens"
    /\ Count("dispatch_return") = 1

\* The primitive of the Action Executor that each supported action stands for.
PrimitiveOf(action) ==
    CASE action = "screenshot" -> "capture_to_base64"
      [] action = "mouse_move" -> "computer_mouse_move"
      [] action \in {"left_click", "right_click", "middle_click"} -> "computer_mouse_click"
      [] action = "double_click" -> "computer_mouse_double_click"
      [] action = "left_click_drag" -> "computer_mouse_drag"
      [] action = "scroll" -> "computer_mouse_scroll"
      [] action = "type" -> "computer_keyboard_type"
      [] action = "key" -> "computer_keyboard_key"

\* The call carries the parameters of the invocation.
CarriesParams(call, action, params) ==
    /\ action \in CoordinateActions =>
          /\ call.args.x = params.coordinate[1]
          /\ call.args.y = params.coordinate[2]
    /\ action = "left_click" => call.args.button = "left"
    /\ action = "right_click" => call.args.button = "right"
    /\ action = "middle_click" => call.args.button = "middle"
    /\ action = "left_click_drag" =>
          /\ <<call.args.fromX, call.args.fromY>> = params.start_coordinate
          /\ <<call.args.toX, call.args.toY>> = params.end_coordinate
    /\ action = "scroll" /\ Has(params, "coordinate") =>
          <<call.args.x, call.args.y>> = params.coordinate
    /\ action = "type" => call.args.text = params.text
    /\ action = "key" => call.args.key = params.text

\* The invocation has the parameters its action reads.
HasItsParams(action, params) ==
    /\ action \in CoordinateActions => Has(params, "coordinate")
    /\ action = "left_click_drag" =>
          Has(params, "start_coordinate") /\ Has(params, "end_coordinate")

\* The dispatch at d, which returned at r, made exactly one executor call,
\* of the primitive of its action and with its parameters, and on success
\* its result is the image payload (screenshot) or the executor's text.
OneMatchingCall(d, r) ==
    LET calls == {j \in d..r : trace[j].kind = "invoke"}
    IN  /\ Cardinality(calls) = 1
        /\ \A j \in calls :
              /\ trace[j].call.cmd = PrimitiveOf(trace[d].action)
              /\ CarriesParams(trace[j].call, trace[d].action, trace[d].params)
        /\ trace[r - 1].kind = "invoke_return"
        /\ trace[r - 1].ok =>
              /\ ~Has(trace[r].result, "is_error")
              /\ trace[r].result.tool_use_id = trace[d].params.tool_use_id
              /\ IF trace[d].action = "screenshot"
                 THEN /\ trace[r].result.content.json = "array"
                      /\ trace[r].result.content.items[1].type = "image"
                      /\ trace[r].result.content.items[1].source.data = "base64jpeg"
                 ELSE trace[r].result.content = JStr("ok")

\* C27: each supported action, dispatched with its parameters, makes exactly
\* one executor call, of the matching primitive (capture, move, click with
\* the button of the action, double click, drag, scroll, type, key) and with
\* the invocation's parameters; on success screenshot returns an image
\* payload and every other action the executor's acknowledgement text.
C27_OneCallOfMatchingPrimitive ==
    \A r \in Entries("dispatch_return") :
        LET d == DispatchOf(r)
        IN  (/\ trace[d].action \in SupportedActions
             /\ HasItsParams(trace[d].action, trace[d].params)) =>
                OneMatchingCall(d, r)

\* Something was raised inside the dispatch at d that returned at r: the
\* observer raised, a parameter the action reads is missing, or the executor
\* call failed.
DispatchRaised(d, r) ==
    \/ onActionExecuted = "throws"
    \/ /\ trace[d].action \in SupportedActions
       /\ ~HasItsParams(trace[d].action, trace[d].params)
    \/ \E j \in d..r : trace[j].kind = "invoke_return" /\ ~trace[j].ok

\* C28: a tool result carries is_error = true exactly when the action of its
\* invocation is unsupported or the dispatch raised (executor failure,
\* observer failure, missing parameter); the result of a supported action
\* whose executor call returned normally has no error flag at all.
C28_ErrorFlagExactlyOnFailure ==
    \A r \in Entries("dispatch_return") :
        LET d == DispatchOf(r)
        IN  /\ IsError(trace[r].result) =
                  (trace[d].action \notin SupportedActions \/ DispatchRaised(d, r))
            /\ (trace[r - 1].kind = "invoke_return" /\ trace[r - 1].ok) =>
                  ~Has(trace[r].result, "is_error")

\* C28 witness: a mouse_move without coordinate came back flagged without any
\* executor call, the observer having returned.
C28_Witness ==
    /\ onActionExecuted = "returns"
    /\ \E r \in Entries("dispatch_return") :
          /\ trace[DispatchOf(r)].action = "mouse_move"
          /\ ~Has(trace[DispatchOf(r)].params, "coordinate")
          /\ IsError(trace[r].result)
          /\ trace[r - 1].kind = "observer"

\* C29: when the observer raises for an invocation, the executor is not
\* called for it, its tool result carries is_error = true and the observer's
\* message, and the loop goes on with the next invocation; and a supplied
\* observer is called for an unsupported action too, before the result
\* "Unsupported action" is produced.
C29_RaisingObserverFlagsResult ==
    \A r \in Entries("dispatch_return") :
        LET d == DispatchOf(r)
        IN  /\ onActionExecuted = "throws" =>
                  /\ \A j \in d..r : trace[j].kind # "invoke"
                  /\ trace[r].result =
                        [type |-> "tool_result",
                         tool_use_id |-> trace[d].params.tool_use_id,
                         content |-> JStr("Error: observer failed"),
                         is_error |-> TRUE]
                  /\ LoopWentOn(r)
            /\ (onActionExecuted # "none" /\ trace[d].action \notin SupportedActions) =>
                  /\ d + 1 < r
                  /\ trace[d + 1].kind = "observer"
                  /\ trace[d + 1].action = trace[d].action
                  /\ trace[d + 1].params = trace[d].params

\* C29 witness: the observer raised for the click and for the unsupported
\* action of one reply; both got their flagged result, in turn, and the
\* executor was never called.
C29_Witness ==
    /\ onActionExecuted = "throws"
    /\ Count("dispatch_return") = 2
    /\ Count("observer") = 2
    /\ Count("invoke") = 0
    /\ Len(messages) = 3
    /\ Len(messages[3].content.items) = 2
    /\ messages[3].content.items[2].content = JStr("Error: observer failed")
    /\ messages[2].content.items[2].input.action = "fly"

\* C30: a reply without tool invocations completes the session whatever its
\* stop reason is (end_turn, tool_use, max_tokens): what the session does
\* after such a reply is the narration of its blocks and the complete event,
\* nothing else, so the stop reason plays no part in a round that executed
\* no invocation.
C30_ZeroToolsIgnoreStopReason ==
    \A i \in Entries("fetch_return") :
        ZeroToolReply(trace[i].response) =>
            LET items == trace[i].response.data.content.items
                tail == SubSeq(trace, i + 1, Len(trace))
                whole == [k \in DOMAIN items |->
                             [kind |-> "yield",
                              event |-> [type |-> items[k].type,
                                         content |-> IF items[k].type = "text"
                                                     THEN items[k].text
                                                     ELSE items[k].thinking]]]
                         \o <<[kind |-> "yield",
                               event |-> [type |-> "complete",
                                          content |-> "Task completed successfully"]]>>
            IN  /\ IsPrefix(tail, whole)
                /\ Terminated => tail = whole
                /\ tail = whole => pc \in {"y_complete", "done", "cancelled"}

\* C30 witness: a reply of one text block with stop reason tool_use ended
\* the session with the complete event, in the first iteration of two.
C30_Witness ==
    /\ config.maxIterations = 2
    /\ iterations = 1
    /\ pc = "done"
    /\ Len(messages) = 2
    /\ LastEvent = CompleteEvent
    /\ \E i \in Entries("fetch_return") :
          /\ ZeroToolReply(trace[i].response)
          /\ trace[i].response.data.stop_reason = "tool_use"
          /\ Len(trace[i].response.data.content.items) = 1

\* C31: a session that ends with the budget error for maxIterations = M >= 1
\* has iterations = M and made M endpoint calls; the invocations of the M-th
\* reply were all executed; the transcript has exactly 1 + 2M turns, the
\* last one the tool-result turn of round M, which no call ever carried; the
\* turns before the last two are those of the M-th call, unchanged.
C31_BudgetErrorKeepsLastRound ==
    (/\ config.maxIterations >= 1
     /\ pc \in {"y_budget", "done"}
     /\ LastEvent = BudgetEvent) =>
        LET reply == trace[LastReply].response.data
            sent == trace[LastReply - 1].body.messages
        IN  /\ iterations = config.maxIterations
            /\ Count("fetch") = config.maxIterations
            /\ Cardinality(EntriesAfter(LastReply, "dispatch")) = Len(ToolUses(reply))
            /\ Cardinality(EntriesAfter(LastReply, "dispatch_return")) = Len(ToolUses(reply))
            /\ Len(ToolUses(reply)) >= 1
            /\ Len(messages) = 1 + 2 * config.maxIterations
            /\ Len(sent) = Len(messages) - 2
            /\ IsPrefix(sent, messages)
            /\ messages[Len(messages) - 1] = [role |-> "assistant", content |-> reply.content]
            /\ messages[Len(messages)].role = "user"
            /\ Answers(messages, Len(messages))
            /\ \A i \in Entries("fetch") : Len(trace[i].body.messages) < Len(messages)

\* C31 witness: a budget of two was used up; the transcript has five turns
\* and the result of the last click is its last turn.
C31_Witness ==
    /\ config.maxIterations = 2
    /\ pc = "done"
    /\ LastEvent = BudgetEvent
    /\ Len(messages) = 5
    /\ messages[5].content.items[1].tool_use_id = "toolu_1"

\* C32: the loop does not enforce maxIterations >= 1.  Started with
\* maxIterations <= 0 it calls neither the endpoint nor the executor, emits
\* no Iteration event, leaves the transcript at the seed turn and ends with
\* the single event "Reached maximum iterations (<maxIterations>)".
C32_NonPositiveBudgetEndsAtOnce ==
    config.maxIterations <= 0 =>
        /\ Count("fetch") = 0
        /\ Count("dispatch") = 0
        /\ Count("invoke") = 0
        /\ iterations = 0
        /\ messages = <<[role |-> "user", content |-> JStr(UserMessage)]>>
        /\ pc \in {"start", "y_budget", "done"}
        /\ pc = "start" => trace = <<>>
        /\ pc # "start" =>
              trace = <<[kind |-> "yield",
                         event |-> [type |-> "error",
                                    content |-> "Reached maximum iterations ("
                                        \o ToString(config.maxIterations) \o ")"]]>>

\* C32 witness: a session started with maxIterations = -1 has ended with its
\* one error event.
C32_Witness ==
    /\ config.maxIterations = -1
    /\ pc = "done"
    /\ LastEvent.content = "Reached maximum iterations (-1)"
    /\ Len(trace) = 1

\* C33: the coordinate of a scroll invocation is optional.  The executor's
\* scroll call gets position (0,0) when the coordinate is absent and the
\* given (x,y) when it is present; its vertical delta is +scroll_amount for
\* the direction "down" and -scroll_amount for every other direction.
C33_ScrollPositionAndSign ==
    \A i \in Entries("dispatch") :
        trace[i].action = "scroll" =>
            \A j \in EntriesAfter(i, "invoke") :
                LET p == trace[i].params
                    a == trace[j].call.args
                IN  /\ trace[j].call.cmd = "computer_mouse_scroll"
                    /\ IF Has(p, "coordinate")
                       THEN a.x = p.coordinate[1] /\ a.y = p.coordinate[2]
                       ELSE a.x = 0 /\ a.y = 0
                    /\ IF p.scroll_direction = "down"
                       THEN a.scrollY = p.scroll_amount
                       ELSE a.scrollY = 0 - p.scroll_amount

\* C33 witness: a scroll "left" by 5 without coordinate reached the executor
\* at (0,0) with vertical delta -5, and a scroll at (10,20) reached it there.
C33_Witness ==
    \E i \in Entries("dispatch") :
        /\ trace[i].action = "scroll"
        /\ ~Has(trace[i].params, "coordinate")
        /\ trace[i].params.scroll_direction = "left"
        /\ \E j \in EntriesAfter(i, "invoke") :
              /\ trace[j].call.args.x = 0
              /\ trace[j].call.args.y = 0
              /\ trace[j].call.args.scrollY = -5

\* The three numbers of the configuration are integers >= 1.
PositiveNumbers(c) ==
    \A f \in {"maxIterations", "displayWidth", "displayHeight"} :
        c[f] \in Nat /\ c[f] >= 1

\* C34: whatever is typed into the three numeric settings fields of a
\* configuration with positive values, maxIterations, displayWidth and
\* displayHeight stay integers >= 1.  An input that parses to no number or
\* to a value <= 0 leaves the whole configuration as it is, a valid input
\* sets its own field to the parsed value and changes nothing else, and so
\* an edit changes at most one of the three fields.
C34_SettingsStayPositive ==
    /\ [](/\ PositiveNumbers(config)
          /\ \A value \in EditInputs :
                LET n == parseInt(value)
                IN  IF n.isNaN \/ n.value <= 0
                    THEN /\ handleMaxIterationsChange(config, value) = config
                         /\ handleDisplayWidthChange(config, value) = config
                         /\ handleDisplayHeightChange(config, value) = config
                    ELSE /\ handleMaxIterationsChange(config, value) =
                               [config EXCEPT !.maxIterations = n.value]
                         /\ handleDisplayWidthChange(config, value) =
                               [config EXCEPT !.displayWidth = n.value]
                         /\ handleDisplayHeightChange(config, value) =
                               [config EXCEPT !.displayHeight = n.value])
    /\ [][\E f \in {"maxIterations", "displayWidth", "displayHeight"} :
              /\ config' = [config EXCEPT ![f] = config'[f]]
              /\ config'[f] \in Nat
              /\ config'[f] >= 1]_vars

\* C34 witness: the three fields were edited and hold the values typed, the
\* other fields being as they were.
C34_Witness ==
    /\ config.maxIterations = 2
    /\ config.displayWidth = 202
    /\ config.displayHeight = 20
    /\ config.enabled
    /\ config.model = "claude-sonnet-4-5-20250929"

\* C35: getScreenSize never raises.  It returns the size the executor
\* reported when the call succeeds and 1920x1080 when the call fails.
C35_ScreenSizeOrFallback ==
    (helper.fn = "getScreenSize" /\ helper.pc = "returned") =>
        /\ helper.outcome.kind = "return"
        /\ IF helper.settled.ok
           THEN helper.outcome.value = helper.settled.value
           ELSE helper.outcome.value = [width |-> 1920, height |-> 1080]

\* C35 witness: the executor's call failed and getScreenSize returned the
\* fallback.
C35_Witness ==
    /\ helper.fn = "getScreenSize"
    /\ helper.pc = "returned"
    /\ ~helper.settled.ok
    /\ helper.outcome = [kind |-> "return", value |-> [width |-> 1920, height |-> 1080]]

\* C36: shouldUseExtabAPI never raises and returns true only if the stored
\* flag is exactly "true" and the license check returned true.  With a flag
\* other than "true" it returns false and makes no license check; when the
\* storage read or the license check fails it returns false.  The license
\* check is made only for the flag "true".
C36_ExtabAPINeedsFlagAndLicense ==
    /\ (helper.fn = "shouldUseExtabAPI" /\ helper.pc = "await") =>
          /\ helper.read.ok
          /\ helper.read.value = JStr("true")
    /\ (helper.fn = "shouldUseExtabAPI" /\ helper.pc = "returned") =>
          /\ helper.outcome.kind = "return"
          /\ helper.outcome.value \in BOOLEAN
          /\ helper.outcome.value =>
                /\ helper.read.ok
                /\ helper.read.value = JStr("true")
                /\ helper.invoked
                /\ helper.settled = [ok |-> TRUE, value |-> TRUE]
          /\ (helper.read.ok /\ helper.read.value # JStr("true")) =>
                ~helper.outcome.value /\ ~helper.invoked
          /\ ~helper.read.ok => ~helper.outcome.value /\ ~helper.invoked
          /\ (helper.invoked /\ ~helper.settled.ok) => ~helper.outcome.value

\* C36 witness: with the flag stored as "TRUE" shouldUseExtabAPI returned
\* false without a license check.
C36_Witness ==
    /\ helper.fn = "shouldUseExtabAPI"
    /\ helper.pc = "returned"
    /\ helper.read = [ok |-> TRUE, value |-> JStr("TRUE")]
    /\ ~helper.invoked
    /\ helper.outcome = [kind |-> "return", value |-> FALSE]

\* The list holds no action twice.
NoDuplicates(actions) ==
    \A i, j \in 1..Len(actions) : actions[i] = actions[j] => i = j

\* The list holds no empty string.
NoEmptyAction(actions) == \A i \in 1..Len(actions) : actions[i] # ""

\* after is before without the action, the others in the order they had.
OthersKeepOrder(before, after, action) ==
    LET keep == {i \in 1..Len(before) : before[i] # action}
    IN  /\ Len(after) = Cardinality(keep)
        /\ \A i \in keep : after[Cardinality({j \in keep : j <= i})] = before[i]

\* C37 as stated: after a call of addQuickAction or removeQuickAction on a
\* list that started duplicate-free, the list has no duplicates and no
\* empty string.
C37_Original ==
    helper.fn \in {"addQuickAction", "removeQuickAction"} =>
        NoDuplicates(quickActions) /\ NoEmptyAction(quickActions)

\* C37: a call of addQuickAction or removeQuickAction on a duplicate-free
\* list without the empty string leaves a duplicate-free list without the
\* empty string, so every sequence of calls from such a list does.  Adding an
\* action that is in the list, or the empty one, leaves the list and the
\* stored copy as they were; removing an action leaves the others in the
\* order they had.
C37_QuickActionsStayClean ==
    /\ helper.fn \in {"addQuickAction", "removeQuickAction"} =>
          /\ NoDuplicates(helper.quickActions) => NoDuplicates(quickActions)
          /\ NoEmptyAction(helper.quickActions) => NoEmptyAction(quickActions)
    /\ helper.fn = "addQuickAction" =>
          IF helper.action = "" \/ Includes(helper.quickActions, helper.action)
          THEN /\ quickActions = helper.quickActions
               /\ localStorage = helper.localStorage
          ELSE quickActions = Append(helper.quickActions, helper.action)
    /\ helper.fn = "removeQuickAction" =>
          OthersKeepOrder(helper.quickActions, quickActions, helper.action)

\* C37 witness: "Translate" was removed from between two others, which kept
\* their order, in a list without duplicates and without the empty string.
C37_Witness ==
    /\ helper.fn = "removeQuickAction"
    /\ helper.action = "Translate"
    /\ helper.quickActions = <<"Summarize", "Translate", "Reply">>
    /\ quickActions = <<"Summarize", "Reply">>
    /\ localStorage["SYSTEM_AUDIO_QUICK_ACTIONS"] = JStr("[\"Summarize\",\"Reply\"]")
====
